---------------------------- MODULE Spec2Model ----------------------------
(***************************************************************************)
(* A model of dvisvgm's PostScript special handler (PsSpecialHandler.cpp). *)
(*                                                                         *)
(* The handler is driven from two sides.  The DVI reader calls preprocess, *)
(* process and dviEndPage; these drive the header/body life cycle and hand *)
(* PostScript code to the interpreter (_psi.execute).  While the           *)
(* interpreter runs that code it calls the handler back, once for every    *)
(* drawing operator (gsave, clip, shfill, ...).  The module models both    *)
(* sides over one set of variables:                                        *)
(*   - SpecSession: the calls of the DVI reader; the interpreter is a log  *)
(*     of the code handed to it.                                           *)
(*   - Spec, SpecShading, SpecPattern, SpecMatrix: the operator callbacks. *)
(***************************************************************************)
EXTENDS Integers, Sequences, FiniteSets, TLC

VARIABLES
  psSection,    \* _psSection: "PS_NONE", "PS_HEADERS" or "PS_BODY"
  headerCode,   \* _headerCode: the collected '!' snippets, in order
  actions,      \* _actions # 0
  cursor,       \* the host's drawing position (_actions->getX(), getY())
  psi,          \* the interpreter: a summary of the code executed so far
  out,          \* what reached the host and the message streams, in order
  clipStack,    \* _clipStack._stack, bottom first
  paths,        \* _clipStack._paths, the shared path store
  path,         \* _path, the live path accumulator (its commands)
  xmlnode,      \* _xmlnode: 0 (page) or the container drawn into (that of
                \* the pattern with this index in patterns)
  savenode,     \* _savenode
  patterns,     \* _patterns: the patterns created by makepattern, oldest first
  pattern,      \* _pattern: 0 or the active pattern (its index in patterns)
  ctm,          \* the matrix shared with the host (_actions->getMatrix())
  intersect,    \* COMPUTE_CLIPPATHS_INTERSECTIONS
  calls,        \* history: number of calls made so far
  needed,       \* history: a call that needs the header setup was made
  handed,       \* history: every '!' snippet handed to preprocess
  collectable,  \* history: the '!' snippets handed outside the body phase
  pages,        \* history: number of dviEndPage calls so far
  lastOp,       \* history: the operator called last and its operand
  before,       \* history: the clip stack before the last operator
  run,          \* history: the current run of gsave/grestore
  win,          \* history: the current save(id) ... restore(id) window
  sh,           \* history: the operands and outcome of the last shfill
  pat,          \* history: the current pattern definition and its target
  tr,           \* history: the matrix operators called and the CTM before each
  gs,           \* the stroke and color parameters (_linewidth, _linecap, ...)
  watch         \* which history is kept: "step", "run", "win", "pat", "ctm"
                \* or "call"

vars == <<psSection, headerCode, actions, cursor, psi, out, clipStack, paths, path,
          xmlnode, savenode, patterns, pattern, ctm, intersect, calls, needed,
          handed, collectable, pages, lastOp, before, run, win, sh, pat, tr, gs, watch>>

sessionVars == <<psSection, headerCode, psi, needed, handed, collectable, pages>>
graphicsVars == <<clipStack, paths, path, xmlnode, savenode, patterns, pattern,
                  ctm, intersect, lastOp, before, run, win, sh, pat, tr, gs, watch>>
graphicsKept == <<clipStack, paths, path, xmlnode, savenode, patterns, pattern,
                  ctm, intersect, before, run, win, sh, pat, tr, gs, watch>>

-----------------------------------------------------------------------------
(* Bounds of the model *)

MaxCalls == 4      \* calls of preprocess/process/dviEndPage in one behaviour
MaxSnippets == 2   \* '!' snippets handed to preprocess in one behaviour
MaxDepth == 3      \* entries on the clip stack
MaxSaveID == 1     \* named saves use the IDs 0..MaxSaveID
MaxPaths == 1      \* paths stored by clip and eoclip calls
MaxOut == 1        \* entries handed out before the last call that draws
MaxPathLen == 1    \* commands in the live path
MaxPatches == 2    \* patch records (or lattice rows past the first) of a mesh
MaxPatterns == 2   \* patterns created by makepattern
MaxPatternID == 1  \* patterns use the IDs 1..MaxPatternID
MaxCoord == 2      \* scale factors and translations are 0..MaxCoord
MaxOps == 2        \* matrix operators called in one behaviour

-----------------------------------------------------------------------------
(* Small helpers on sequences *)

Top(s) == s[Len(s)]
Front(s) == SubSeq(s, 1, Len(s) - 1)

-----------------------------------------------------------------------------
(* The interpreter and the message streams *)

Code(k) == [k |-> k, c |-> <<>>]

\* What the interpreter has executed, as far as the session is concerned:
\*   setups   how often the bop/eop redefinition that ends the header setup ran
\*   early    some other code ran before the header setup
\*   opened   body entries (each pushes TeXDict on the dictionary stack)
\*   closed   the 'end' executed by dviEndPage to close a body entry
\*   entries  body entries since the last end of page
\*   stray    code of a special ran while the section was not PS_BODY
\*   replayed the '!' snippets replayed at body entries, in order
\*   procsets the header files executed
\*   specials how many pieces of code read from a special or from the file it
\*            names were executed
NoCode == [setups |-> 0, early |-> FALSE, opened |-> 0, closed |-> 0, entries |-> 0,
           stray |-> FALSE, replayed |-> <<>>, procsets |-> {}, specials |-> 0]

ProcSets == {"procset:tex.pro", "procset:texps.pro", "procset:special.pro", "procset:user.pro"}

IsSetupCode(k) ==
  k \in {"bopeop", "procset:tex.pro", "procset:texps.pro", "procset:special.pro"}

\* _psi.execute of one piece of code while the section is sec.
Execute1(p, e, sec) ==
  [setups |-> p.setups + (IF e.k = "bopeop" THEN 1 ELSE 0),
   early |-> p.early \/ (p.setups = 0 /\ ~IsSetupCode(e.k)),
   opened |-> p.opened + (IF e.k = "body" THEN 1 ELSE 0),
   closed |-> p.closed + (IF e.k = "end" THEN 1 ELSE 0),
   entries |-> p.entries + (IF e.k = "body" THEN 1 ELSE 0),
   stray |-> p.stray \/ (e.k = "special" /\ sec # "PS_BODY"),
   replayed |-> p.replayed \o e.c,
   procsets |-> p.procsets \cup ({e.k} \cap ProcSets),
   specials |-> p.specials + (IF e.k = "special" THEN 1 ELSE 0)]

RECURSIVE Execute(_, _, _)
Execute(p, code, sec) ==
  IF code = <<>> THEN p
  ELSE Execute(Execute1(p, code[1], sec), Tail(code), sec)
Diag(what) == [ev |-> "diag", to |-> 0, el |-> what, clip |-> 0, n |-> 0]

Prologue == <<"tex.pro", "texps.pro", "special.pro">>

\* processHeaderFile: the three execute calls of a header file that is found
\* (one log entry), or nothing when FileFinder::lookup fails.
HeaderFileCodeAlways(name, found) == <<Code("procset:" \o name)>>

HeaderFileCode(name, found) ==
  IF found THEN <<Code("procset:" \o name)>> ELSE <<>>

HeaderFileDiag(name, found) ==
  IF found THEN <<>> ELSE <<Diag("header file not found")>>

RECURSIVE PrologueCode(_, _)
PrologueCode(i, found) ==
  IF i > Len(Prologue) THEN <<>>
  ELSE HeaderFileCode(Prologue[i], Prologue[i] \in found) \o PrologueCode(i + 1, found)

RECURSIVE PrologueDiag(_, _)
PrologueDiag(i, found) ==
  IF i > Len(Prologue) THEN <<>>
  ELSE HeaderFileDiag(Prologue[i], Prologue[i] \in found) \o PrologueDiag(i + 1, found)

\* initialize: returns the code executed, the messages and the new section.
InitializeAlways(sec, found) ==
  [code |-> PrologueCode(1, found) \o <<Code("bopeop")>>,
   msgs |-> PrologueDiag(1, found),
   sec |-> "PS_HEADERS"]

initialize(sec, found) ==
  IF sec = "PS_NONE"
    THEN [code |-> PrologueCode(1, found) \o <<Code("bopeop")>>,
          msgs |-> PrologueDiag(1, found),
          sec |-> "PS_HEADERS"]
    ELSE [code |-> <<>>, msgs |-> <<>>, sec |-> sec]

\* enterBodySection: the code executed, the new section and header code.
EnterBodyKeepCode(sec, hc, tightpage) ==
  IF sec = "PS_HEADERS"
    THEN [code |-> <<[k |-> "body", c |-> hc]>>
                   \o (IF tightpage THEN <<>> ELSE <<Code("bophook")>>),
          sec |-> "PS_BODY", hc |-> hc]
    ELSE [code |-> <<>>, sec |-> sec, hc |-> hc]

enterBodySection(sec, hc, tightpage) ==
  IF sec = "PS_HEADERS"
    THEN [code |-> <<[k |-> "body", c |-> hc]>>
                   \o (IF tightpage THEN <<>> ELSE <<Code("bophook")>>),
          sec |-> "PS_BODY", hc |-> <<>>]
    ELSE [code |-> <<>>, sec |-> sec, hc |-> hc]


-----------------------------------------------------------------------------
(* The calls of the DVI reader: preprocess, process, dviEndPage *)

HeaderFiles == {"tex.pro", "texps.pro", "special.pro", "user.pro"}

\* The kinds of special that process distinguishes by prefix and content.
BodyKinds == {"quote", "psfile", "ps::begin", "ps::array", "ps::end", "ps::", "ps:plotfile", "ps:"}
HeaderPrefixes == {"!", "header="}

\* The kinds of special whose code is executed with updatePos set: the
\* host's position becomes the current point the code leaves behind.
SyncKinds == {"ps::begin", "ps::array", "ps::end", "ps::", "ps:"}

\* The positions the host's cursor takes.
Positions == {0, 1}

\* history of the calls of the DVI reader, kept when watch is "call"
TrackCall(name, arg) ==
  lastOp' = IF watch = "call" THEN [op |-> name, arg |-> arg] ELSE lastOp

\* moveToDVIPos: one execute call when the host is attached.
moveToDVIPos(act) == IF act THEN <<Code("moveto")>> ELSE <<>>

\* executeAndSync: the color update (when the host color changed), the
\* special's code, and the position query.
executeAndSync(colorChanged, updatePos) ==
  (IF colorChanged THEN <<Code("setrgbcolor")>> ELSE <<>>)
  \o <<Code("special")>>
  \o (IF updatePos THEN <<Code("querypos")>> ELSE <<>>)

\* The code process executes for a special of the given kind, after the body
\* section is entered.  fileOk: the file named by the special can be opened;
\* degenerate: a psfile special with a zero extent.
SpecialCode(kind, colorChanged, fileOk, degenerate) ==
  CASE kind = "quote" ->
         moveToDVIPos(TRUE) \o <<Code("beginspecial")>>
         \o executeAndSync(colorChanged, FALSE) \o <<Code("endspecial")>>
    [] kind = "psfile" ->
         IF ~fileOk \/ degenerate THEN <<>>
         ELSE moveToDVIPos(TRUE) \o <<Code("beginspecial"), Code("special"), Code("endspecial")>>
              \o moveToDVIPos(TRUE)
    [] kind = "ps::begin" -> moveToDVIPos(TRUE) \o executeAndSync(colorChanged, TRUE)
    [] kind = "ps::array" -> <<Code("special")>> \o executeAndSync(colorChanged, TRUE)
    [] kind = "ps::end" -> executeAndSync(colorChanged, TRUE)
    [] kind = "ps::" -> executeAndSync(colorChanged, TRUE)
    [] kind = "ps:plotfile" ->
         moveToDVIPos(TRUE) \o (IF fileOk THEN <<Code("special")>> ELSE <<>>)
    [] kind = "ps:" ->
         moveToDVIPos(TRUE) \o executeAndSync(colorChanged, TRUE) \o moveToDVIPos(TRUE)

SpecialDiag(kind, fileOk) ==
  IF kind \in {"psfile", "ps:plotfile"} /\ ~fileOk
    THEN <<Diag("file not found")>> ELSE <<>>

\* What a psfile special hands to the host: the group of the figure when
\* something was drawn into it, and the figure's box.
PsfileOut(kind, fileOk, degenerate, drawn) ==
  IF kind = "psfile" /\ fileOk /\ ~degenerate
    THEN (IF drawn THEN <<[ev |-> "append", to |-> 0, el |-> "g", clip |-> 0, n |-> 0]>> ELSE <<>>)
         \o <<[ev |-> "embed", to |-> 0, el |-> "bbox", clip |-> 0, n |-> 0]>>
    ELSE <<>>

preprocess(prefix, found, fileOk) ==
  LET i == initialize(psSection, found) IN
  /\ calls < MaxCalls
  /\ prefix = "!" => Len(handed) < MaxSnippets
  /\ calls' = calls + 1
  /\ needed' = TRUE
  /\ psSection' = i.sec
  /\ IF i.sec # "PS_HEADERS"
       THEN /\ psi' = Execute(psi, i.code, psSection)
            /\ out' = out \o i.msgs
            /\ UNCHANGED <<actions, headerCode>>
       ELSE /\ actions' = TRUE
            /\ headerCode' = IF prefix = "!" THEN Append(headerCode, Len(handed) + 1)
                                            ELSE headerCode
            /\ psi' = Execute(Execute(psi, i.code, psSection),
                              IF prefix = "header=" THEN HeaderFileCode("user.pro", fileOk) ELSE <<>>,
                              i.sec)
            /\ out' = out \o i.msgs
                      \o (IF prefix = "header=" THEN HeaderFileDiag("user.pro", fileOk) ELSE <<>>)
  /\ handed' = IF prefix = "!" THEN Append(handed, Len(handed) + 1) ELSE handed
  /\ collectable' = IF prefix = "!" /\ psSection # "PS_BODY"
                      THEN Append(collectable, Len(handed) + 1) ELSE collectable
  /\ UNCHANGED <<pages, cursor>>
  /\ UNCHANGED graphicsKept
  /\ TrackCall("preprocess", [kind |-> prefix, found |-> found, tightpage |-> FALSE,
                               fileOk |-> fileOk])

processHeader(prefix) ==
  /\ calls < MaxCalls
  /\ prefix \in HeaderPrefixes
  /\ calls' = calls + 1
  /\ UNCHANGED <<actions, out, cursor>>
  /\ UNCHANGED sessionVars
  /\ UNCHANGED graphicsKept
  /\ TrackCall("process", [kind |-> prefix, found |-> {}, tightpage |-> FALSE,
                            fileOk |-> FALSE])

process(kind, found, tightpage, colorChanged, fileOk, degenerate, drawn, pos) ==
  LET i == initialize(psSection, found)
      b == IF i.sec # "PS_BODY" THEN enterBodySection(i.sec, headerCode, tightpage)
                                ELSE [code |-> <<>>, sec |-> i.sec, hc |-> headerCode]
  IN
  /\ calls < MaxCalls
  /\ kind \in BodyKinds
  /\ calls' = calls + 1
  /\ needed' = TRUE
  /\ actions' = TRUE
  /\ psSection' = b.sec
  /\ headerCode' = b.hc
  /\ psi' = Execute(Execute(Execute(psi, i.code, psSection), b.code, b.sec),
                     SpecialCode(kind, colorChanged, fileOk, degenerate), b.sec)
  /\ out' = out \o i.msgs \o SpecialDiag(kind, fileOk) \o PsfileOut(kind, fileOk, degenerate, drawn)
  /\ xmlnode' = IF kind = "psfile" /\ fileOk /\ ~degenerate THEN 0 ELSE xmlnode
  /\ cursor' = IF kind \in SyncKinds THEN pos ELSE cursor
  /\ UNCHANGED <<handed, collectable, pages>>
  /\ UNCHANGED <<clipStack, paths, path, savenode, patterns, pattern,
                 ctm, intersect, before, run, win, sh, pat, tr, gs, watch>>
  /\ TrackCall("process", [kind |-> kind, found |-> found, tightpage |-> tightpage,
                            fileOk |-> fileOk])

DviEndPageKeepsBody ==
  /\ calls < MaxCalls
  /\ calls' = calls + 1
  /\ pages' = pages + 1
  /\ IF psSection = "PS_BODY"
       THEN psi' = [Execute(psi, <<Code("end")>>, psSection) EXCEPT !.entries = 0]
       ELSE psi' = [psi EXCEPT !.entries = 0]
  /\ UNCHANGED psSection
  /\ UNCHANGED <<headerCode, actions, out, needed, handed, collectable, cursor>>
  /\ UNCHANGED graphicsKept
  /\ TrackCall("dviEndPage", [kind |-> "", found |-> {}, tightpage |-> FALSE,
                               fileOk |-> FALSE])

dviEndPage ==
  /\ calls < MaxCalls
  /\ calls' = calls + 1
  /\ pages' = pages + 1
  /\ IF psSection = "PS_BODY"
       THEN /\ psi' = [Execute(psi, <<Code("end")>>, psSection) EXCEPT !.entries = 0]
            /\ psSection' = "PS_HEADERS"
       ELSE /\ psi' = [psi EXCEPT !.entries = 0]
            /\ UNCHANGED psSection
  /\ UNCHANGED <<headerCode, actions, out, needed, handed, collectable, cursor>>
  /\ UNCHANGED graphicsKept
  /\ TrackCall("dviEndPage", [kind |-> "", found |-> {}, tightpage |-> FALSE,
                               fileOk |-> FALSE])

-----------------------------------------------------------------------------
(* The state after construction, and the session specification *)

Identity == <<1, 0, 0, 0, 1, 0>>

NoOp == [op |-> "none", arg |-> 0]
NoRun == [base |-> 0, open |-> 0, done |-> FALSE]
NoWin == [st |-> "off", id |-> 0, snap |-> <<>>, above |-> 0]
\* Lengths are held in units of 1/Unit, so that half a line width is exact.
Unit == 2

\* The stroke parameters as initialize sets them, and the color, black until
\* a color operator changes it (color: the host's; currentcolor: the
\* handler's).
InitialGS ==
  [linewidth |-> 1 * Unit, linecap |-> 0, linejoin |-> 0, miterlimit |-> 4,
   opacityalpha |-> 1, dashpattern |-> <<>>, dashoffset |-> 0,
   color |-> "black", currentcolor |-> "black"]

NoPat == [st |-> "off", target |-> 0, node |-> 0, to |-> -1]
NoSh == [bb |-> 0, trunc |-> FALSE, whole |-> 0, patches |-> 0,
         diag |-> FALSE, res |-> "none", mesh |-> <<>>]

Constructed ==
  /\ psSection = "PS_NONE"
  /\ headerCode = <<>>
  /\ cursor = 0
  /\ psi = NoCode
  /\ out = <<>>
  /\ clipStack = <<>>
  /\ paths = <<>>
  /\ path = <<>>
  /\ xmlnode = 0
  /\ savenode = 0
  /\ patterns = <<>>
  /\ pattern = 0
  /\ ctm = Identity
  /\ calls = 0
  /\ needed = FALSE
  /\ handed = <<>>
  /\ collectable = <<>>
  /\ pages = 0
  /\ lastOp = NoOp
  /\ before = <<>>
  /\ run = NoRun
  /\ win = NoWin
  /\ sh = NoSh
  /\ pat = NoPat
  /\ tr = <<>>
  /\ gs = InitialGS

Init ==
  /\ Constructed
  /\ actions = FALSE
  /\ intersect = FALSE
  /\ watch = "step"

InitCall ==
  /\ Constructed
  /\ actions = FALSE
  /\ intersect = FALSE
  /\ watch = "call"

\* The outcomes of looking up the prologue files need choosing only when
\* initialize is about to run them.
Lookups == IF psSection = "PS_NONE" THEN SUBSET {Prologue[1], Prologue[2], Prologue[3]} ELSE {{}}

\* An input that the call does not look at takes one value only.
Either(relevant) == IF relevant THEN BOOLEAN ELSE {FALSE}

Preprocess ==
  \E prefix \in HeaderPrefixes \cup {"ps:"}, found \in Lookups :
    \E fileOk \in Either(prefix = "header=") :
      preprocess(prefix, found, fileOk)

ProcessHeader == \E prefix \in HeaderPrefixes : processHeader(prefix)

Process ==
  \E kind \in BodyKinds, found \in Lookups :
    \E tightpage \in Either(psSection # "PS_BODY"),
       colorChanged \in Either(kind \notin {"psfile", "ps:plotfile"}),
       fileOk \in Either(kind \in {"psfile", "ps:plotfile"}),
       degenerate \in Either(kind = "psfile"),
       drawn \in Either(kind = "psfile"),
       pos \in IF kind \in SyncKinds THEN Positions ELSE {cursor} :
      process(kind, found, tightpage, colorChanged, fileOk, degenerate, drawn, pos)

DviEndPage == dviEndPage

SessionNext == Preprocess \/ ProcessHeader \/ Process \/ DviEndPage

SpecSession == Init /\ [][SessionNext]_vars

-----------------------------------------------------------------------------
(* ClippingStack *)

\* Entry(pid, sid): a new entry; its clip-loaded flag starts cleared.
Entry(pid, sid) == [pathID |-> pid, saveID |-> sid, cpathLoaded |-> FALSE]

\* The clipping stack is a pair: the stack (bottom first) and the path store.
CS(stack, store) == [stack |-> stack, paths |-> store]

CS_pushEmptyPath(stack) ==
  IF stack # <<>> THEN Append(stack, Entry(0, -1)) ELSE stack

CS_push(cs, pathEmpty, desc, saveID) ==
  IF pathEmpty
    THEN CS(Append(cs.stack, Entry(0, saveID)), cs.paths)
    ELSE CS(Append(cs.stack, Entry(Len(cs.paths) + 1, saveID)), Append(cs.paths, desc))

RECURSIVE PopWhileUnnamed(_)
PopWhileUnnamed(stack) ==
  IF stack # <<>> /\ Top(stack).saveID < 0 THEN PopWhileUnnamed(Front(stack)) ELSE stack

RECURSIVE PopUntil(_, _)
PopUntil(stack, saveID) ==
  IF stack # <<>> /\ Top(stack).saveID # saveID THEN PopUntil(Front(stack), saveID) ELSE stack

\* A pop whose grestore case removes the top entry whoever pushed it.
PopAnyTop(stack, saveID, grestoreall) ==
  IF stack = <<>> THEN stack
  ELSE IF saveID < 0
    THEN IF grestoreall THEN PopWhileUnnamed(Front(stack)) ELSE Front(stack)
    ELSE LET s1 == PopUntil(stack, saveID) IN
         IF s1 # <<>> THEN Front(s1) ELSE s1

CS_pop(stack, saveID, grestoreall) ==
  IF stack = <<>> THEN stack
  ELSE IF saveID < 0
    THEN LET s1 == IF Top(stack).saveID < 0 THEN Front(stack) ELSE stack IN
         IF grestoreall THEN PopWhileUnnamed(s1) ELSE s1
    ELSE LET s1 == PopUntil(stack, saveID) IN
         IF s1 # <<>> THEN Front(s1) ELSE s1

\* top() # 0: the top entry has a clip path.
CS_top(stack) == stack # <<>> /\ Top(stack).pathID # 0

\* topID(): the path ID of the top entry, 0 for an empty stack.
CS_topID(stack) == IF stack = <<>> THEN 0 ELSE Top(stack).pathID

CS_clippathLoaded(stack) == stack # <<>> /\ Top(stack).cpathLoaded

CS_setClippathLoaded(stack, loaded) ==
  IF stack = <<>> THEN stack
  ELSE [stack EXCEPT ![Len(stack)].cpathLoaded = loaded]

ReplaceInPlace(cs, pathEmpty, desc) ==
  IF cs.stack = <<>>
    THEN CS_push(cs, pathEmpty, desc, -1)
    ELSE IF Top(cs.stack).pathID > 0
      THEN CS(cs.stack, [cs.paths EXCEPT ![Top(cs.stack).pathID] = desc])
      ELSE CS([cs.stack EXCEPT ![Len(cs.stack)].pathID = Len(cs.paths) + 1],
              Append(cs.paths, desc))

CS_replace(cs, pathEmpty, desc) ==
  IF cs.stack = <<>>
    THEN CS_push(cs, pathEmpty, desc, -1)
    ELSE CS([cs.stack EXCEPT ![Len(cs.stack)].pathID = Len(cs.paths) + 1],
            Append(cs.paths, desc))

\* A dup that pushes an entry without clip path whatever the top is.
DupEmpty(stack, saveID) == Append(stack, Entry(0, saveID))

CS_dup(stack, saveID) ==
  LET pushed == Append(stack, IF stack = <<>> THEN Entry(0, -1) ELSE Top(stack)) IN
  [pushed EXCEPT ![Len(pushed)].saveID = saveID]

-----------------------------------------------------------------------------
(* The live path *)

\* A path is its commands in order, each with the point it ends at.
Cmd(c, pt) == [c |-> c, pt |-> pt]

\* removeRedundantCommands: of consecutive movetos only the last one counts.
RECURSIVE RemoveRedundant(_)
RemoveRedundant(p) ==
  IF Len(p) < 2 THEN p
  ELSE IF p[1].c = "M" /\ p[2].c = "M" THEN RemoveRedundant(Tail(p))
  ELSE <<p[1]>> \o RemoveRedundant(Tail(p))

\* Matrix applied to a point, and Path::transform.
Apply(m, pt) == <<m[1] * pt[1] + m[2] * pt[2] + m[3], m[4] * pt[1] + m[5] * pt[2] + m[6]>>

Transform(p, m) == [i \in 1 .. Len(p) |-> Cmd(p[i].c, Apply(m, p[i].pt))]

\* Path::isDot: the path is a single moveto.
isDot(p) == Len(p) = 1 /\ p[1].c = "M"

\* Bounding boxes are <<x1, y1, x2, y2>>; a default-constructed box is not
\* valid.  computeBBox of a non-empty path:
NoBox == <<>>

Min(S) == CHOOSE x \in S : \A y \in S : x <= y
Max(S) == CHOOSE x \in S : \A y \in S : y <= x

computeBBox(p) ==
  IF p = <<>> THEN NoBox
  ELSE LET xs == {p[i].pt[1] : i \in 1 .. Len(p)}
           ys == {p[i].pt[2] : i \in 1 .. Len(p)}
       IN <<Min(xs), Min(ys), Max(xs), Max(ys)>>

\* BoundingBox::expand, BoundingBox::intersect (no change when the boxes do
\* not meet) and BoundingBox::transform (the box of the transformed corners).
expand(b, by) == IF b = NoBox THEN b ELSE <<b[1] - by, b[2] - by, b[3] + by, b[4] + by>>

intersectBox(b, c) ==
  IF b = NoBox \/ c = NoBox THEN b
  ELSE IF b[3] < c[1] \/ c[3] < b[1] \/ b[4] < c[2] \/ c[4] < b[2] THEN b
  ELSE <<Max({b[1], c[1]}), Max({b[2], c[2]}), Min({b[3], c[3]}), Min({b[4], c[4]})>>

transformBox(b, m) ==
  IF b = NoBox THEN b
  ELSE computeBBox(<<Cmd("M", Apply(m, <<b[1], b[2]>>)), Cmd("L", Apply(m, <<b[3], b[2]>>)),
                     Cmd("L", Apply(m, <<b[3], b[4]>>)), Cmd("L", Apply(m, <<b[1], b[4]>>))>>)

-----------------------------------------------------------------------------
(* History of the operator callbacks *)

Op(name, arg) == [op |-> name, arg |-> arg]

\* The current run of gsave/grestore calls: the depth at which it started, the
\* gsave calls of the run not yet matched by a grestore, and whether a
\* grestore of the run was matched.
TrackRun(name, newStack) ==
  CASE name = "gsave" -> [run EXCEPT !.open = @ + 1]
    [] name = "grestore" /\ run.open > 0 -> [run EXCEPT !.open = @ - 1, !.done = TRUE]
    [] OTHER -> [base |-> Len(newStack), open |-> 0, done |-> FALSE]

\* The window opened by save(id): the stack before the save; it stays open
\* over gsave and grestore and is closed by restore(id), which notes how many
\* entries lay above the entry of the save.
TrackWin(name, arg) ==
  CASE name = "save" -> [st |-> "open", id |-> arg, snap |-> clipStack, above |-> 0]
    [] name \in {"gsave", "grestore"} /\ win.st = "open" -> win
    [] name = "restore" /\ win.st = "open" /\ win.id = arg ->
         [win EXCEPT !.st = "closed", !.above = Len(clipStack) - Len(win.snap) - 1]
    [] OTHER -> [st |-> "off", id |-> 0, snap |-> <<>>, above |-> 0]

\* The pattern definition opened by the last makepattern call of type 1: the
\* output target T in effect at that call, the container of the new pattern,
\* and, once the following makepattern call of type 0 closed it, where the
\* element drawn last went (-1: nothing drawn yet).
Drawn == {i \in Len(out) + 1 .. Len(out') : out'[i].ev = "append"}

TrackPat(name, arg) ==
  CASE name = "makepattern" /\ arg[1] = 1 ->
         [st |-> "open", target |-> xmlnode, node |-> xmlnode', to |-> -1]
    [] name = "makepattern" /\ arg[1] = 0 /\ pat.st = "open" ->
         [pat EXCEPT !.st = "closed", !.to = -1]
    [] name = "makepattern" /\ arg[1] = 0 /\ pat.st # "open" -> NoPat
    [] name # "makepattern" /\ pat.st # "off" /\ Drawn # {} ->
         [pat EXCEPT !.to = out'[CHOOSE i \in Drawn : TRUE].to]
    [] OTHER -> pat

\* The matrix operators called so far, each with its operands and the CTM it
\* found.
TrackTr(name, arg) == Append(tr, [op |-> name, arg |-> arg, at |-> ctm])

\* Each behaviour keeps one of the histories: the last operator and the clip
\* stack before it ("step"), the gsave/grestore run ("run") or the save window
\* ("win").
Track(name, arg, newStack) ==
  /\ lastOp' = IF watch \in {"step", "call"} THEN Op(name, arg) ELSE lastOp
  /\ before' = IF watch = "step" THEN clipStack ELSE before
  /\ run' = IF watch = "run" THEN TrackRun(name, newStack) ELSE run
  /\ win' = IF watch = "win" THEN TrackWin(name, arg) ELSE win
  /\ pat' = IF watch = "pat" THEN TrackPat(name, arg) ELSE pat
  /\ tr' = IF watch = "ctm" THEN TrackTr(name, arg) ELSE tr
  /\ UNCHANGED watch

hostVars == <<psSection, headerCode, actions, cursor, psi, calls, needed, handed, collectable, pages>>

-----------------------------------------------------------------------------
(* Operator callbacks: graphics state and path construction *)

gsave ==
  /\ Len(clipStack) < MaxDepth
  /\ clipStack' = CS_dup(clipStack, -1)
  /\ UNCHANGED <<paths, path, out, xmlnode, savenode, patterns, pattern, ctm, intersect, sh, gs>>
  /\ UNCHANGED hostVars
  /\ Track("gsave", -1, clipStack')

\* A grestore that unwinds every unnamed entry, as grestoreall does.
GrestoreUnwinds ==
  /\ clipStack' = CS_pop(clipStack, -1, TRUE)
  /\ UNCHANGED <<paths, path, out, xmlnode, savenode, patterns, pattern, ctm, intersect, sh, gs>>
  /\ UNCHANGED hostVars
  /\ Track("grestore", -1, clipStack')

\* A grestore that removes the top entry whoever pushed it.
GrestoreAnyTop ==
  /\ clipStack' = PopAnyTop(clipStack, -1, FALSE)
  /\ UNCHANGED <<paths, path, out, xmlnode, savenode, patterns, pattern, ctm, intersect, sh, gs>>
  /\ UNCHANGED hostVars
  /\ Track("grestore", -1, clipStack')

grestore ==
  /\ clipStack' = CS_pop(clipStack, -1, FALSE)
  /\ UNCHANGED <<paths, path, out, xmlnode, savenode, patterns, pattern, ctm, intersect, sh, gs>>
  /\ UNCHANGED hostVars
  /\ Track("grestore", -1, clipStack')

\* A grestoreall that removes at most one entry.
GrestoreallOnce ==
  /\ clipStack' = CS_pop(clipStack, -1, FALSE)
  /\ UNCHANGED <<paths, path, out, xmlnode, savenode, patterns, pattern, ctm, intersect, sh, gs>>
  /\ UNCHANGED hostVars
  /\ Track("grestoreall", -1, clipStack')

grestoreall ==
  /\ clipStack' = CS_pop(clipStack, -1, TRUE)
  /\ UNCHANGED <<paths, path, out, xmlnode, savenode, patterns, pattern, ctm, intersect, sh, gs>>
  /\ UNCHANGED hostVars
  /\ Track("grestoreall", -1, clipStack')

save(id) ==
  /\ Len(clipStack) < MaxDepth
  /\ clipStack' = CS_dup(clipStack, id)
  /\ UNCHANGED <<paths, path, out, xmlnode, savenode, patterns, pattern, ctm, intersect, sh, gs>>
  /\ UNCHANGED hostVars
  /\ Track("save", id, clipStack')

\* A restore that stops at the entry tagged id and leaves it on the stack.
RestoreKeepsSave(id) ==
  /\ clipStack' = PopUntil(clipStack, id)
  /\ UNCHANGED <<paths, path, out, xmlnode, savenode, patterns, pattern, ctm, intersect, sh, gs>>
  /\ UNCHANGED hostVars
  /\ Track("restore", id, clipStack')

RestoreIfTagged(id) ==
  /\ clipStack' = IF \E i \in DOMAIN clipStack : clipStack[i].saveID = id
                    THEN CS_pop(clipStack, id, FALSE) ELSE clipStack
  /\ UNCHANGED <<paths, path, out, xmlnode, savenode, patterns, pattern, ctm, intersect, sh, gs>>
  /\ UNCHANGED hostVars
  /\ Track("restore", id, clipStack')

restore(id) ==
  /\ clipStack' = CS_pop(clipStack, id, FALSE)
  /\ UNCHANGED <<paths, path, out, xmlnode, savenode, patterns, pattern, ctm, intersect, sh, gs>>
  /\ UNCHANGED hostVars
  /\ Track("restore", id, clipStack')

moveto(pt) ==
  /\ Len(path) < MaxPathLen
  /\ path' = Append(path, Cmd("M", pt))
  /\ UNCHANGED <<clipStack, paths, out, xmlnode, savenode, patterns, pattern, ctm, intersect, sh, gs>>
  /\ UNCHANGED hostVars
  /\ Track("moveto", 0, clipStack)

lineto(pt) ==
  /\ Len(path) < MaxPathLen
  /\ path' = Append(path, Cmd("L", pt))
  /\ UNCHANGED <<clipStack, paths, out, xmlnode, savenode, patterns, pattern, ctm, intersect, sh, gs>>
  /\ UNCHANGED hostVars
  /\ Track("lineto", 0, clipStack)

curveto(pt) ==
  /\ Len(path) < MaxPathLen
  /\ path' = Append(path, Cmd("C", pt))
  /\ UNCHANGED <<clipStack, paths, out, xmlnode, savenode, patterns, pattern, ctm, intersect, sh, gs>>
  /\ UNCHANGED hostVars
  /\ Track("curveto", 0, clipStack)

closepath ==
  /\ Len(path) < MaxPathLen
  /\ path' = Append(path, Cmd("Z", <<0, 0>>))
  /\ UNCHANGED <<clipStack, paths, out, xmlnode, savenode, patterns, pattern, ctm, intersect, sh, gs>>
  /\ UNCHANGED hostVars
  /\ Track("closepath", 0, clipStack)

newpath(drawing) ==
  /\ IF ~drawing \/ ~CS_clippathLoaded(clipStack)
       THEN /\ path' = <<>>
            /\ clipStack' = CS_setClippathLoaded(clipStack, FALSE)
       ELSE UNCHANGED <<path, clipStack>>
  /\ UNCHANGED <<paths, out, xmlnode, savenode, patterns, pattern, ctm, intersect, sh, gs>>
  /\ UNCHANGED hostVars
  /\ Track("newpath", IF drawing THEN 1 ELSE 0, clipStack')

-----------------------------------------------------------------------------
(* Operator callbacks: clipping *)

\* An initclip that pushes on the empty stack too.
InitclipAlways ==
  /\ Len(clipStack) < MaxDepth
  /\ clipStack' = Append(clipStack, Entry(0, -1))
  /\ UNCHANGED <<paths, path, out, xmlnode, savenode, patterns, pattern, ctm, intersect, sh, gs>>
  /\ UNCHANGED hostVars
  /\ Track("initclip", 0, clipStack')

initclip ==
  /\ Len(clipStack) < MaxDepth
  /\ clipStack' = CS_pushEmptyPath(clipStack)
  /\ UNCHANGED <<paths, path, out, xmlnode, savenode, patterns, pattern, ctm, intersect, sh, gs>>
  /\ UNCHANGED hostVars
  /\ Track("initclip", 0, clipStack')

\* A clippath that leaves the live path alone.
ClippathKeepsPath ==
  /\ clipStack' = CS_setClippathLoaded(clipStack, TRUE)
  /\ UNCHANGED <<paths, path, out, xmlnode, savenode, patterns, pattern, ctm, intersect, sh, gs>>
  /\ UNCHANGED hostVars
  /\ Track("clippath", 0, clipStack')

clippath ==
  /\ IF clipStack # <<>>
       THEN /\ clipStack' = CS_setClippathLoaded(clipStack, TRUE)
            /\ path' = <<>>
       ELSE UNCHANGED <<clipStack, path>>
  /\ UNCHANGED <<paths, out, xmlnode, savenode, patterns, pattern, ctm, intersect, sh, gs>>
  /\ UNCHANGED hostVars
  /\ Track("clippath", 0, clipStack')

ClipDefUnchained(newID, oldID, evenodd) ==
  [ev |-> "defs", to |-> 0, el |-> IF evenodd THEN "clipPath:evenodd" ELSE "clipPath",
   clip |-> 0, n |-> newID]

ClipDef(newID, oldID, evenodd) ==
  [ev |-> "defs", to |-> 0, el |-> IF evenodd THEN "clipPath:evenodd" ELSE "clipPath",
   clip |-> oldID, n |-> newID]

\* The result of PathClipper::intersect is not computed: it is a path told
\* apart from the paths built by the operators.
Intersection == <<Cmd("I", <<0, 0>>)>>

\* The entries handed out so far, clip path definitions apart (MaxPaths bounds
\* those).
HandedOut == Len(SelectSeq(out, LAMBDA e : e.ev # "defs"))

\* clip(path, evenodd) for a path that is empty or not and is desc once it is
\* transformed: the clipping stack and the clipPath definition handed to the
\* host.
Clip(cs, pathEmpty, desc, evenodd, act, isect) ==
  IF pathEmpty \/ ~act THEN [cs |-> cs, defs |-> <<>>]
  ELSE
    LET oldID == CS_topID(cs.stack)
        new == IF ~isect \/ oldID < 1
                 THEN CS_replace(cs, FALSE, desc)
                 ELSE CS_replace(cs, FALSE, Intersection)
        newID == CS_topID(new.stack)
    IN [cs |-> new,
        defs |-> <<ClipDef(newID, IF ~isect /\ oldID # 0 THEN oldID ELSE 0, evenodd)>>]

clip(evenodd) ==
  LET p == RemoveRedundant(path)
      r == Clip(CS(clipStack, paths), p = <<>>, Transform(p, ctm), evenodd, actions, intersect)
  IN
  \* the path clipped to is the live path itself, transformed in place
  /\ path' = IF p = <<>> \/ ~actions THEN p ELSE Transform(p, ctm)
  /\ clipStack' = r.cs.stack
  /\ paths' = r.cs.paths
  /\ out' = out \o r.defs
  /\ UNCHANGED <<xmlnode, savenode, patterns, pattern, ctm, intersect, sh, gs>>
  /\ UNCHANGED hostVars
  /\ Track(IF evenodd THEN "eoclip" ELSE "clip", IF p = <<>> \/ ~actions THEN 0 ELSE 1, clipStack')

-----------------------------------------------------------------------------
(* Operator callbacks: shfill *)

\* Number of components of a color in the color space selected by the
\* color-space operand (RGB unless it is 1 or 4).
ColorComps(cs) == CASE cs = 1 -> 1 [] cs = 4 -> 4 [] OTHER -> 3

\* ShadingPatch::numPoints and numColors of the patch created for a shading
\* type: triangular (4), Coons (6), tensor-product (7).
numPoints(type, edgeflag) ==
  CASE type = 4 -> IF edgeflag = 0 THEN 3 ELSE 1
    [] type = 6 -> IF edgeflag = 0 THEN 12 ELSE 8
    [] OTHER -> IF edgeflag = 0 THEN 16 ELSE 12

numColors(type, edgeflag) ==
  CASE type = 4 -> IF edgeflag = 0 THEN 3 ELSE 1
    [] OTHER -> IF edgeflag = 0 THEN 4 ELSE 2

\* read_patch_data: the position of the last operand it reads for a patch
\* whose edge flag was read just before position pos.
LastRead(type, nc, edgeflag, pos) ==
  IF type = 4
    THEN pos - 1 + numPoints(type, edgeflag) * (2 + nc) + (numPoints(type, edgeflag) - 1)
    ELSE pos - 1 + 2 * numPoints(type, edgeflag) + nc * numColors(type, edgeflag)

\* read_patch_data for a patch whose edge flag was read just before position
\* pos: the points and the colors (each color its components) in the order
\* they are read.  A triangular patch has an edge flag before every vertex
\* but the first; the other patches have all points before all colors.
ReadPoints(type, nc, params, pos, edgeflag) ==
  [i \in 1 .. numPoints(type, edgeflag) |->
     IF type = 4
       THEN <<params[pos + (i - 1) * (3 + nc)], params[pos + (i - 1) * (3 + nc) + 1]>>
       ELSE <<params[pos + 2 * (i - 1)], params[pos + 2 * (i - 1) + 1]>>]

ReadColors(type, nc, params, pos, edgeflag) ==
  [j \in 1 .. numColors(type, edgeflag) |->
     IF type = 4
       THEN SubSeq(params, pos + (j - 1) * (3 + nc) + 2, pos + (j - 1) * (3 + nc) + 1 + nc)
       ELSE LET first == pos + 2 * numPoints(type, edgeflag) + (j - 1) * nc
            IN SubSeq(params, first, first + nc - 1)]

\* ShadingPatch::setPoints and setColors: with edge flag 0 the patch is what
\* was read; with edge flag f > 0 it starts with the edge of the previous
\* patch that f selects and goes on with what was read.
setPoints(type, points, edgeflag, prev) ==
  IF edgeflag = 0 THEN points
  ELSE IF type = 4
    THEN (IF edgeflag = 1 THEN <<prev.points[2], prev.points[3]>>
          ELSE <<prev.points[3], prev.points[1]>>) \o points
    ELSE [i \in 1 .. 4 |-> prev.points[((3 * edgeflag + i - 1) % 12) + 1]] \o points

\* A setColors that takes the colors of the shared edge from what was read.
SetColorsFromStream(type, colors, edgeflag, prev) ==
  IF edgeflag = 0 THEN colors
  ELSE IF type = 4 THEN <<colors[1], colors[1]>> \o colors
  ELSE colors \o colors

setColors(type, colors, edgeflag, prev) ==
  IF edgeflag = 0 THEN colors
  ELSE IF type = 4
    THEN (IF edgeflag = 1 THEN <<prev.colors[2], prev.colors[3]>>
          ELSE <<prev.colors[3], prev.colors[1]>>) \o colors
    ELSE <<prev.colors[edgeflag + 1], prev.colors[((edgeflag + 1) % 4) + 1]>> \o colors

\* No previous patch.
NoPatch == [edgeflag |-> -1]

\* processSequentialPatchMesh from position pos on: the patches approximated
\* (each with its edge flag, its points and colors and the operands read for
\* it) and how the loop ended: "ok", "incomplete" (the iterator ran off the
\* operands) or "shading" (a patch with edge flag > 0 and no predecessor).
RECURSIVE SequentialMesh(_, _, _, _, _, _)
SequentialMesh(type, nc, params, pos, prev, done) ==
  LET end(res) == [n |-> Len(done), res |-> res, group |-> done # <<>>, patches |-> done] IN
  IF pos > Len(params) THEN end("ok")
  ELSE
    LET edgeflag == params[pos]
        last == LastRead(type, nc, edgeflag, pos + 1)
    IN IF last > Len(params) THEN end("incomplete")
       ELSE IF edgeflag > 0 /\ prev = NoPatch THEN end("shading")
       ELSE
         LET patch == [edgeflag |-> edgeflag,
                       points |-> setPoints(type, ReadPoints(type, nc, params, pos + 1, edgeflag),
                                            edgeflag, prev),
                       colors |-> setColors(type, ReadColors(type, nc, params, pos + 1, edgeflag),
                                            edgeflag, prev),
                       first |-> pos, last |-> last]
         IN SequentialMesh(type, nc, params, last + 1, patch, Append(done, patch))

\* The rows of a lattice mesh after the first, from position pos on.
RECURSIVE LatticeRows(_, _, _, _, _)
LatticeRows(nc, params, perRow, pos, done) ==
  IF pos > Len(params) THEN [n |-> done, res |-> "ok", group |-> TRUE, patches |-> <<>>]
  ELSE IF pos - 1 + perRow * (2 + nc) > Len(params)
    THEN [n |-> done, res |-> "incomplete", group |-> TRUE, patches |-> <<>>]
    ELSE LatticeRows(nc, params, perRow, pos + perRow * (2 + nc), done + 2 * (perRow - 1))

\* processLatticeTriangularPatchMesh from position pos on.
LatticeMesh(nc, params, pos) ==
  IF pos > Len(params) THEN [n |-> 0, res |-> "incomplete", group |-> FALSE, patches |-> <<>>]
  ELSE
    LET perRow == params[pos] IN
    IF perRow < 2 THEN [n |-> 0, res |-> "ok", group |-> FALSE, patches |-> <<>>]
    ELSE IF pos + perRow * (2 + nc) > Len(params)
      THEN [n |-> 0, res |-> "incomplete", group |-> FALSE, patches |-> <<>>]
      ELSE LatticeRows(nc, params, perRow, pos + 1 + perRow * (2 + nc), 0)

\* The operands shfill reads before the mesh: the background color and the
\* clip rectangle.  ok is FALSE when a read runs off the operands, which
\* happens outside the try block.
ShadingHeader(params) ==
  LET nc == ColorComps(params[2])
      bg == params[3] # 0
      posBB == IF bg THEN 4 + nc ELSE 4
      bbRead == posBB <= Len(params)
      bb == bbRead /\ params[posBB] # 0
      posMesh == IF bb THEN posBB + 5 ELSE posBB + 1
      ok == bbRead /\ (bb => posBB + 4 <= Len(params))
  IN [nc |-> nc, bb |-> bb, pos |-> posMesh, ok |-> ok,
      rect |-> IF bb /\ ok THEN SubSeq(params, posBB + 1, posBB + 4) ELSE <<>>]

\* What the mesh hands to the host: for a sequential mesh a group per patch,
\* each followed by the patch's box unless output is redirected; for a
\* lattice mesh one group of all its patches and no box.
Group(to, clipID, n) == [ev |-> "append", to |-> to, el |-> "g:shading", clip |-> clipID, n |-> n]
PatchBox(box) ==
  [ev |-> "embed", to |-> 0, el |-> "patch", clip |-> 0, n |-> 0, box |-> box]

\* ShadingPatch::getBBox: the box around the points of the patch.
getBBox(patch) ==
  LET xs == {patch.points[i][1] : i \in 1 .. Len(patch.points)}
      ys == {patch.points[i][2] : i \in 1 .. Len(patch.points)}
  IN <<Min(xs), Min(ys), Max(xs), Max(ys)>>

RECURSIVE PatchGroups(_, _, _, _)
PatchGroups(to, clipID, patches, m) ==
  IF patches = <<>> THEN <<>>
  ELSE <<Group(to, clipID, 1)>>
       \o (IF to = 0 THEN <<PatchBox(transformBox(getBBox(patches[1]), m))>> ELSE <<>>)
       \o PatchGroups(to, clipID, Tail(patches), m)

MeshOut(type, r, to, clipID, m) ==
  (IF type = 5
     THEN (IF r.group THEN <<Group(to, clipID, r.n)>> ELSE <<>>)
     ELSE PatchGroups(to, clipID, r.patches, m))
  \o (IF r.res = "incomplete" THEN <<Diag("incomplete shading data")>>
      ELSE IF r.res = "shading" THEN <<Diag("shading error")>> ELSE <<>>)

\* What shfill reads from its operands, whatever the graphics state: res is
\* "short" (fewer than nine operands), "escaped" (a read before the try
\* block ran off the operands), or how the mesh loop ended.
ReadShading(params) ==
  IF Len(params) < 9
    THEN [type |-> 0, bb |-> FALSE, rect |-> <<>>, res |-> "short", n |-> 0, group |-> FALSE,
          patches |-> <<>>]
  ELSE
    LET h == ShadingHeader(params) IN
    IF ~h.ok
      THEN [type |-> params[1], bb |-> h.bb, rect |-> <<>>, res |-> "escaped", n |-> 0,
            group |-> FALSE, patches |-> <<>>]
      ELSE
        LET m == IF params[1] = 5 THEN LatticeMesh(h.nc, params, h.pos)
                 ELSE SequentialMesh(params[1], h.nc, params, h.pos, NoPatch, <<>>)
        IN [type |-> params[1], bb |-> h.bb, rect |-> h.rect, res |-> m.res, n |-> m.n,
            group |-> m.group, patches |-> m.patches]

\* The path of the clip rectangle.
RectPath(x1, y1, x2, y2) ==
  <<Cmd("M", <<x1, y1>>), Cmd("L", <<x2, y1>>), Cmd("L", <<x2, y2>>), Cmd("L", <<x1, y2>>),
    Cmd("Z", <<0, 0>>)>>

\* shfill on what it read: the clipping stack and the events.  The
\* rectangle is clipped to before the mesh is read and popped after it.

Shfill(r, cs, to, act, isect, m) ==
  IF r.res \in {"short", "escaped"} THEN [cs |-> cs, out |-> <<>>]
  ELSE
    LET c == IF r.bb
               THEN Clip(cs, FALSE,
                         Transform(RectPath(r.rect[1], r.rect[2], r.rect[3], r.rect[4]), m),
                         FALSE, act, isect)
                     ELSE [cs |-> cs, defs |-> <<>>]
        stack == IF r.bb THEN CS_pop(c.cs.stack, -1, FALSE) ELSE c.cs.stack
    IN [cs |-> CS(stack, c.cs.paths),
        out |-> c.defs \o MeshOut(r.type, r, to, CS_topID(c.cs.stack), m)]

-----------------------------------------------------------------------------
(* Operand streams for shfill *)

Zeros(n) == [i \in 1 .. n |-> 0]

\* An operand of the mesh that is not an edge flag or a row length.
Blank == -1
Blanks(n) == [i \in 1 .. n |-> Blank]

\* A mesh: shading type, color-space operand, background flag, rectangle flag
\* and the edge flags of its patches (for a lattice mesh: one flag per row
\* after the first; the rows hold two vertices).
PatchRecord(type, nc, edgeflag) ==
  IF type = 4
    THEN <<edgeflag>> \o Blanks(LastRead(4, nc, edgeflag, 1))
    ELSE <<edgeflag>> \o Blanks(LastRead(type, nc, edgeflag, 1))

LatticeRow(nc) == Blanks(2 * (2 + nc))

RECURSIVE Records(_, _, _)
Records(type, nc, flags) ==
  IF flags = <<>> THEN <<>>
  ELSE (IF type = 5 THEN LatticeRow(nc) ELSE PatchRecord(type, nc, flags[1]))
       \o Records(type, nc, Tail(flags))

\* The clip rectangle of the meshes that carry one.
ClipRect == <<0, 0, 10, 10>>

HeaderOperands(d) ==
  <<d.type, d.cs, d.bg>> \o (IF d.bg = 1 THEN Zeros(ColorComps(d.cs)) ELSE <<>>)
  \o <<d.bb>> \o (IF d.bb = 1 THEN ClipRect ELSE <<>>)

MeshOperands(d) ==
  (IF d.type = 5 THEN <<2>> \o LatticeRow(ColorComps(d.cs)) ELSE <<>>)
  \o Records(d.type, ColorComps(d.cs), d.flags)

\* The operands of d: every coordinate and color component of the mesh is
\* the position it has among the operands, so that each value read tells
\* where it was read.
Operands(d) ==
  LET h == HeaderOperands(d)
      mesh == MeshOperands(d)
  IN h \o [i \in 1 .. Len(mesh) |-> IF mesh[i] = Blank THEN Len(h) + i ELSE mesh[i]]

\* The lengths at which the operands of d end with a whole number of records.
HeaderLen(d) == 4 + (IF d.bg = 1 THEN ColorComps(d.cs) ELSE 0) + (IF d.bb = 1 THEN 4 ELSE 0)

RecordLen(type, nc, edgeflag) ==
  IF type = 5 THEN 2 * (2 + nc) ELSE 1 + LastRead(type, nc, edgeflag, 1)

RECURSIVE Boundaries(_, _)
Boundaries(d, k) ==
  IF k = 0
    THEN {HeaderLen(d) + (IF d.type = 5 THEN 1 + RecordLen(5, ColorComps(d.cs), 0) ELSE 0)}
    ELSE LET prev == Boundaries(d, k - 1)
             last == CHOOSE b \in prev : \A c \in prev : c <= b
         IN prev \cup {last + RecordLen(d.type, ColorComps(d.cs), d.flags[k])}

\* The operands of d cut to length len are truncated when the cut falls
\* inside the header, a patch record or a lattice row.
Truncated(d, len) == len \notin Boundaries(d, Len(d.flags))

\* Patches wholly contained in the first len operands of d.
WholePatches(d, len) ==
  LET whole == Cardinality({b \in Boundaries(d, Len(d.flags)) : b <= len}) IN
  IF whole = 0 THEN 0
  ELSE IF d.type = 5 THEN 2 * (whole - 1) ELSE whole - 1

\* Edge flags of a mesh: a lone patch, with or without a predecessor to
\* continue, or a first patch with its continuations.
FlagSeqs == {<<1>>} \cup {[i \in 1 .. k |-> IF i = 1 THEN 0 ELSE 1] : k \in 1 .. MaxPatches}

Meshes == [type : {4, 5, 6, 7}, cs : {1, 4}, bg : {0, 1}, bb : {0, 1}, flags : FlagSeqs]

\* The lengths the operands of d are cut to: every length up to the start of
\* the second record, and around the end of every record.
Cuts(d) ==
  LET bs == Boundaries(d, Len(d.flags)) IN
  (0 .. HeaderLen(d) + 2) \cup bs \cup {b - 1 : b \in bs}

\* Every mesh at every cut: what shfill reads from the operands, whether the
\* cut truncates them, the patches they hold whole, and whether they carry the
\* rectangle.
Stream(d, len) ==
  [read |-> ReadShading(SubSeq(Operands(d), 1, len)),
   trunc |-> Truncated(d, len),
   whole |-> WholePatches(d, len),
   bb |-> IF d.bb = 1 /\ len >= HeaderLen(d) THEN 1 ELSE 0]

Streams == UNION {{Stream(d, len) : len \in Cuts(d)} : d \in Meshes}

shfill(s) ==
  LET r == Shfill(s.read, CS(clipStack, paths), xmlnode, actions, intersect, ctm)
  IN
  \* A group is handed to the host or to the current container; with no host
  \* attached the handler dereferences a null pointer and the run ends there.
  /\ actions \/ ~s.read.group
  /\ path' = IF s.read.bb /\ s.read.res \notin {"short", "escaped"}
               THEN RemoveRedundant(path) ELSE path
  /\ clipStack' = r.cs.stack
  /\ paths' = r.cs.paths
  /\ out' = out \o r.out
  /\ sh' = [bb |-> s.bb,
            trunc |-> s.trunc,
            whole |-> s.whole,
            patches |-> s.read.n,
            diag |-> \E i \in 1 .. Len(r.out) : r.out[i].ev = "diag",
            res |-> s.read.res,
            mesh |-> s.read.patches]
  /\ UNCHANGED <<xmlnode, savenode, patterns, pattern, ctm, intersect, gs>>
  /\ UNCHANGED hostVars
  /\ Track("shfill", 0, clipStack')

-----------------------------------------------------------------------------
(* Matrices *)

\* A Matrix is held by its first two rows, ((m[1],m[2],m[3]),(m[4],m[5],m[6]));
\* the third row is (0,0,1).  The product A*B:
Mul(A, B) ==
  <<A[1] * B[1] + A[2] * B[4], A[1] * B[2] + A[2] * B[5], A[1] * B[3] + A[2] * B[6] + A[3],
    A[4] * B[1] + A[5] * B[4], A[4] * B[2] + A[5] * B[5], A[4] * B[3] + A[5] * B[6] + A[6]>>

\* Matrix::lmultiply and Matrix::rmultiply.
lmultiply(m, delta) == Mul(delta, m)
rmultiply(m, delta) == Mul(m, delta)

ScalingMatrix(sx, sy) == <<sx, 0, 0, 0, sy, 0>>
TranslationMatrix(tx, ty) == <<1, 0, tx, 0, 1, ty>>

\* RotationMatrix for a quarter turn counted in multiples of 90 degrees.
RotationMatrix(quarters) ==
  CASE quarters % 4 = 0 -> <<1, 0, 0, 0, 1, 0>>
    [] quarters % 4 = 1 -> <<0, -1, 0, 1, 0, 0>>
    [] quarters % 4 = 2 -> <<-1, 0, 0, 0, -1, 0>>
    [] OTHER -> <<0, 1, 0, -1, 0, 0>>

\* vector::resize(n) of a shorter vector: the new elements are 0.
Resize(v, n) == [i \in 1 .. n |-> IF i <= Len(v) THEN v[i] ELSE 0]

\* The loop of create_matrix from index i on.
RECURSIVE FillFrom(_, _, _)
FillFrom(v, startindex, i) ==
  IF i < 6
    THEN FillFrom([v EXCEPT ![i + startindex + 1] = IF i % 3 # 0 THEN 0 ELSE 1], startindex, i + 1)
    ELSE v

Swap(v, i, j) == [v EXCEPT ![i] = v[j], ![j] = v[i]]

\* create_matrix for a vector of at least startindex values: the vector after
\* the padding and the three swaps, read from startindex on.
create_matrix(v, startindex) ==
  LET padded == IF Len(v) - startindex < 6
                  THEN LET r == Resize(v, 6 + startindex)
                       IN FillFrom(r, startindex, Len(r) - startindex)
                  ELSE v
      s1 == Swap(padded, startindex + 2, startindex + 3)
      s2 == Swap(s1, startindex + 3, startindex + 5)
      s3 == Swap(s2, startindex + 4, startindex + 5)
  IN [i \in 1 .. 6 |-> s3[startindex + i]]

-----------------------------------------------------------------------------
(* Operator callbacks: matrix operators *)

setmatrix(p) ==
  /\ IF actions THEN ctm' = create_matrix(p, 0) ELSE UNCHANGED ctm
  /\ UNCHANGED <<clipStack, paths, path, out, xmlnode, savenode, patterns, pattern, intersect, sh, gs>>
  /\ UNCHANGED hostVars
  /\ Track("setmatrix", p, clipStack)

scale(p) ==
  /\ IF actions THEN ctm' = lmultiply(ctm, ScalingMatrix(p[1], p[2])) ELSE UNCHANGED ctm
  /\ UNCHANGED <<clipStack, paths, path, out, xmlnode, savenode, patterns, pattern, intersect, sh, gs>>
  /\ UNCHANGED hostVars
  /\ Track("scale", p, clipStack)

\* A translate that multiplies from the right.
TranslateRight(p) ==
  /\ IF actions THEN ctm' = rmultiply(ctm, TranslationMatrix(p[1], p[2])) ELSE UNCHANGED ctm
  /\ UNCHANGED <<clipStack, paths, path, out, xmlnode, savenode, patterns, pattern, intersect, sh, gs>>
  /\ UNCHANGED hostVars
  /\ Track("translate", p, clipStack)

translate(p) ==
  /\ IF actions THEN ctm' = lmultiply(ctm, TranslationMatrix(p[1], p[2])) ELSE UNCHANGED ctm
  /\ UNCHANGED <<clipStack, paths, path, out, xmlnode, savenode, patterns, pattern, intersect, sh, gs>>
  /\ UNCHANGED hostVars
  /\ Track("translate", p, clipStack)

rotate(p) ==
  /\ IF actions THEN ctm' = lmultiply(ctm, RotationMatrix(p[1])) ELSE UNCHANGED ctm
  /\ UNCHANGED <<clipStack, paths, path, out, xmlnode, savenode, patterns, pattern, intersect, sh, gs>>
  /\ UNCHANGED hostVars
  /\ Track("rotate", p, clipStack)

-----------------------------------------------------------------------------
(* Operator callbacks: patterns and fill *)

\* The pattern registered under an ID: the one created last (0: none).
Registered(pats, id) ==
  LET same == {i \in 1 .. Len(pats) : pats[i].id = id} IN
  IF same = {} THEN 0 ELSE CHOOSE i \in same : \A j \in same : j <= i

\* makepattern for operands p = <<type, id, x1, y1, x2, y2, xstep, ystep,
\* paint type>> followed by the pattern matrix.  The container of a new
\* pattern is known by the pattern's index in patterns.
makepattern(p) ==
  /\ CASE p[1] = 0 ->
            /\ IF savenode # 0
                 THEN xmlnode' = savenode /\ savenode' = 0
                 ELSE UNCHANGED <<xmlnode, savenode>>
            /\ UNCHANGED patterns
       [] p[1] = 1 ->
            \* _actions->getMatrix() needs the host.
            /\ actions
            /\ Len(p) >= 9
            /\ Len(patterns) < MaxPatterns
            /\ patterns' = Append(patterns,
                 [id |-> p[2], colored |-> p[9] = 1, color |-> "black",
                  matrix |-> rmultiply(create_matrix(p, 9), ctm)])
            /\ savenode' = xmlnode
            /\ xmlnode' = Len(patterns')
       [] OTHER -> UNCHANGED <<xmlnode, savenode, patterns>>
  /\ UNCHANGED <<clipStack, paths, path, out, pattern, ctm, intersect, sh, gs>>
  /\ UNCHANGED hostVars
  /\ Track("makepattern", p, clipStack)

\* Colors, by name: Color::setRGB, setGray, setCMYK and setHSB for components
\* that are 0 or 1.
RGB(r, g, b) ==
  CASE <<r, g, b>> = <<0, 0, 0>> -> "black"
    [] <<r, g, b>> = <<1, 0, 0>> -> "red"
    [] <<r, g, b>> = <<0, 1, 0>> -> "lime"
    [] <<r, g, b>> = <<0, 0, 1>> -> "blue"
    [] <<r, g, b>> = <<1, 1, 0>> -> "yellow"
    [] <<r, g, b>> = <<1, 0, 1>> -> "magenta"
    [] <<r, g, b>> = <<0, 1, 1>> -> "cyan"
    [] OTHER -> "white"

Gray(g) == RGB(g, g, g)

CMYK(c, m, y, k) == RGB((1 - c) * (1 - k), (1 - m) * (1 - k), (1 - y) * (1 - k))

HSB(h, s, b) == IF s = 0 THEN RGB(b, b, b) ELSE RGB(b, 0, 0)

\* A color operator that leaves the active pattern alone.
SetColorKeepsPattern(name, p, color) ==
  /\ gs' = [gs EXCEPT !.currentcolor = color,
                      !.color = IF actions THEN color ELSE @]
  /\ UNCHANGED <<clipStack, paths, path, out, xmlnode, savenode, patterns, pattern, ctm,
                 intersect, sh>>
  /\ UNCHANGED hostVars
  /\ Track(name, p, clipStack)

\* The color operators: no pattern is active any more, the handler's color is
\* the converted operand, and the host gets it when there is a host.
SetColor(name, p, color) ==
  /\ pattern' = 0
  /\ gs' = [gs EXCEPT !.currentcolor = color,
                      !.color = IF actions THEN color ELSE @]
  /\ UNCHANGED <<clipStack, paths, path, out, xmlnode, savenode, patterns, ctm, intersect, sh>>
  /\ UNCHANGED hostVars
  /\ Track(name, p, clipStack)

setgray(p) == SetColor("setgray", p, Gray(p[1]))
setrgbcolor(p) == SetColor("setrgbcolor", p, RGB(p[1], p[2], p[3]))
setcmykcolor(p) == SetColor("setcmykcolor", p, CMYK(p[1], p[2], p[3], p[4]))
sethsbcolor(p) == SetColor("sethsbcolor", p, HSB(p[1], p[2], p[3]))

\* PSPattern::apply hands the definition of the pattern to the host once.
PatternDef(idx) == [ev |-> "defs", to |-> 0, el |-> "pattern", clip |-> 0, n |-> idx]

ApplyPattern(idx, act) ==
  IF act /\ \A i \in 1 .. Len(out) : out[i] # PatternDef(idx)
    THEN <<PatternDef(idx)>> ELSE <<>>

\* A setpattern that keeps the active pattern when the ID is not registered.
SetpatternKeepsUnknown(p) ==
  LET idx == Registered(patterns, p[1]) IN
  /\ pattern' = IF idx = 0 THEN pattern ELSE idx
  /\ UNCHANGED <<clipStack, paths, path, out, xmlnode, savenode, patterns, ctm, intersect,
                 sh, gs>>
  /\ UNCHANGED hostVars
  /\ Track("setpattern", p, clipStack)

\* setpattern with operands <<pattern ID>> or <<pattern ID, r, g, b>>.  Only
\* tiling patterns are ever registered, so a pattern found becomes the active
\* one; an uncolored one takes the color given.
setpattern(p) ==
  LET idx == Registered(patterns, p[1])
      color == IF Len(p) = 4 THEN RGB(p[2], p[3], p[4]) ELSE "black"
  IN
  /\ IF idx = 0
       THEN /\ pattern' = 0
            /\ UNCHANGED <<patterns, out>>
       ELSE /\ patterns' = IF patterns[idx].colored THEN patterns
                           ELSE [patterns EXCEPT ![idx].color = color]
            /\ out' = out \o ApplyPattern(idx, actions)
            /\ pattern' = idx
  /\ UNCHANGED <<clipStack, paths, path, xmlnode, savenode, ctm, intersect, sh, gs>>
  /\ UNCHANGED hostVars
  /\ Track("setpattern", p, clipStack)

\* XMLElementNode::append and appendToPage of an element (nothing for a null
\* element), and embed of a box (nothing for a box that is not valid).
NoElem == [ev |-> "none"]

AppendElem(to, elem) ==
  IF elem = NoElem THEN <<>> ELSE <<[elem EXCEPT !.to = to]>>

Embed(box) ==
  IF box = NoBox THEN <<>>
  ELSE <<[ev |-> "embed", to |-> 0, el |-> "box", clip |-> 0, n |-> 0, box |-> box]>>

\* The path drawn: the live path, transformed, behind the clip path of the top
\* entry when clippath loaded it.
Drawing(p, cs, m) ==
  (IF CS_clippathLoaded(cs.stack) /\ CS_top(cs.stack)
     THEN cs.paths[CS_topID(cs.stack)] ELSE <<>>)
  \o Transform(p, m)

ClipBox(cs) == computeBBox(cs.paths[CS_topID(cs.stack)])

\* The path element of fill and eofill.
FillElem(d, pat0, color, inPattern, opacity, evenodd) ==
  [ev |-> "append", to |-> 0, el |-> "path", clip |-> 0, n |-> pat0, d |-> d,
   fill |-> IF pat0 # 0 THEN "pattern"
            ELSE IF color # "black" \/ inPattern THEN color ELSE "none",
   rule |-> IF evenodd THEN "evenodd" ELSE "none",
   opacity |-> IF opacity < 1 THEN opacity ELSE 1]

\* stroke and fill return early when there is neither a path nor a loaded
\* clip path, or no host.
NothingToPaint ==
  (RemoveRedundant(path) = <<>> /\ ~CS_clippathLoaded(clipStack)) \/ ~actions

\* The common course of stroke and fill once the element elem0 and the box
\* box0 are made: the element gets the clip path of the top entry, which also
\* clips the box and takes back the loaded flag; element and box go to the
\* container drawn into or to the page; the live path is cleared.  The history
\* notes whether the call returned early (0) or not (1).
Paint(name, early, elem0, box0) ==
  LET clipped == elem0 # NoElem /\ CS_top(clipStack)
      elem == IF clipped THEN [elem0 EXCEPT !.clip = CS_topID(clipStack)] ELSE elem0
      box == IF clipped THEN intersectBox(box0, ClipBox(CS(clipStack, paths))) ELSE box0
  IN
  /\ HandedOut < MaxOut
  /\ IF early
       THEN /\ path' = RemoveRedundant(path)
            /\ UNCHANGED <<clipStack, out>>
       ELSE /\ out' = out \o AppendElem(xmlnode, elem)
                      \o (IF xmlnode = 0 THEN Embed(box) ELSE <<>>)
            /\ clipStack' = IF clipped
                              THEN CS_setClippathLoaded(clipStack, FALSE) ELSE clipStack
            /\ path' = <<>>
  /\ UNCHANGED <<paths, xmlnode, savenode, patterns, pattern, ctm, intersect, sh, gs>>
  /\ UNCHANGED hostVars
  /\ Track(name, IF early THEN 0 ELSE 1, clipStack')

FillBox ==
  IF xmlnode = 0 THEN transformBox(computeBBox(RemoveRedundant(path)), ctm)
  ELSE computeBBox(RemoveRedundant(path))

\* A fill that goes on without a path and without a loaded clip path.
FillUnguarded(evenodd) ==
  Paint(IF evenodd THEN "eofill" ELSE "fill", ~actions,
        FillElem(Drawing(RemoveRedundant(path), CS(clipStack, paths), ctm),
                 pattern, gs.color, savenode # 0, gs.opacityalpha, evenodd),
        FillBox)

fill(evenodd) ==
  Paint(IF evenodd THEN "eofill" ELSE "fill", NothingToPaint,
        FillElem(Drawing(RemoveRedundant(path), CS(clipStack, paths), ctm),
                 pattern, gs.color, savenode # 0, gs.opacityalpha, evenodd),
        FillBox)

\* A stroke element whose dot has the whole line width as its radius.
StrokeElemWide(d, g) ==
  IF isDot(d) /\ g.linecap = 1
    THEN [ev |-> "append", to |-> 0, el |-> "circle", clip |-> 0, n |-> 0,
          c |-> d[1].pt, r |-> g.linewidth, fill |-> g.color]
    ELSE NoElem

\* The element of stroke: a circle for a dot stroked with round caps, nothing
\* for a dot otherwise, and a path element with the stroke attributes for
\* every other path.
StrokeElem(d, g) ==
  IF isDot(d)
    THEN IF g.linecap = 1
           THEN [ev |-> "append", to |-> 0, el |-> "circle", clip |-> 0, n |-> 0,
                 c |-> d[1].pt, r |-> g.linewidth \div 2, fill |-> g.color]
           ELSE NoElem
    ELSE [ev |-> "append", to |-> 0, el |-> "path", clip |-> 0, n |-> 0, d |-> d,
          stroke |-> g.color, fill |-> "none",
          width |-> IF g.linewidth # 1 * Unit THEN g.linewidth ELSE 0,
          miterlimit |-> IF g.miterlimit # 4 THEN g.miterlimit ELSE 0,
          linecap |-> IF g.linecap > 0
                        THEN (IF g.linecap = 1 THEN "round" ELSE "square") ELSE "none",
          linejoin |-> IF g.linejoin > 0
                         THEN (IF g.linecap = 1 THEN "round" ELSE "bevel") ELSE "none",
          opacity |-> IF g.opacityalpha < 1 THEN g.opacityalpha ELSE 1,
          dasharray |-> g.dashpattern,
          dashoffset |-> IF g.dashpattern # <<>> /\ g.dashoffset # 0 THEN g.dashoffset ELSE 0]

\* The box of stroke before it is clipped: that of the circle, of the path
\* widened by half the line width, or the box as constructed (transformed
\* with the path when the target is the page).
StrokeBox(d, g, m, toPage) ==
  IF isDot(d)
    THEN IF g.linecap = 1
           THEN <<d[1].pt[1] - g.linewidth \div 2, d[1].pt[2] - g.linewidth \div 2,
                  d[1].pt[1] + g.linewidth \div 2, d[1].pt[2] + g.linewidth \div 2>>
           ELSE IF toPage THEN transformBox(NoBox, m) ELSE NoBox
    ELSE expand(computeBBox(d), g.linewidth \div 2)

\* A stroke that draws the dot whatever the cap style is.
StrokeDotAlways ==
  LET d == Drawing(RemoveRedundant(path), CS(clipStack, paths), ctm)
      g == IF isDot(d) THEN [gs EXCEPT !.linecap = 1] ELSE gs
  IN Paint("stroke", NothingToPaint, StrokeElem(d, g), StrokeBox(d, g, ctm, xmlnode = 0))

stroke ==
  LET d == Drawing(RemoveRedundant(path), CS(clipStack, paths), ctm)
  IN Paint("stroke", NothingToPaint, StrokeElem(d, gs), StrokeBox(d, gs, ctm, xmlnode = 0))

\* setlinewidth, setlinecap and setlinejoin store their operand.
setlinewidth(w) ==
  /\ gs' = [gs EXCEPT !.linewidth = w]
  /\ UNCHANGED <<clipStack, paths, path, out, xmlnode, savenode, patterns, pattern, ctm,
                 intersect, sh>>
  /\ UNCHANGED hostVars
  /\ Track("setlinewidth", w, clipStack)

setlinecap(cap) ==
  /\ gs' = [gs EXCEPT !.linecap = cap]
  /\ UNCHANGED <<clipStack, paths, path, out, xmlnode, savenode, patterns, pattern, ctm,
                 intersect, sh>>
  /\ UNCHANGED hostVars
  /\ Track("setlinecap", cap, clipStack)

setlinejoin(join) ==
  /\ gs' = [gs EXCEPT !.linejoin = join]
  /\ UNCHANGED <<clipStack, paths, path, out, xmlnode, savenode, patterns, pattern, ctm,
                 intersect, sh>>
  /\ UNCHANGED hostVars
  /\ Track("setlinejoin", join, clipStack)

-----------------------------------------------------------------------------
(* The operator callbacks as a state machine *)

SaveIDs == 0 .. MaxSaveID

\* The interpreter calls the operators back while it executes code.  That
\* happens first for the prologue run by initialize, called from preprocess
\* before the host is attached (_actions = 0, section PS_NONE), and otherwise
\* for the code of a special, after process attached the host and entered the
\* body section.
InPrologue ==
  /\ Constructed
  /\ actions = FALSE

InBody ==
  /\ psSection = "PS_BODY"
  /\ headerCode = <<>>
  /\ cursor = 0
  /\ psi = Execute(Execute(NoCode, initialize("PS_NONE", HeaderFiles).code, "PS_NONE"),
                   enterBodySection("PS_HEADERS", <<>>, TRUE).code, "PS_BODY")
  /\ out = <<>>
  /\ clipStack = <<>>
  /\ paths = <<>>
  /\ path = <<>>
  /\ xmlnode = 0
  /\ savenode = 0
  /\ patterns = <<>>
  /\ pattern = 0
  /\ ctm = Identity
  /\ calls = 1
  /\ needed = TRUE
  /\ handed = <<>>
  /\ collectable = <<>>
  /\ pages = 0
  /\ lastOp = NoOp
  /\ before = <<>>
  /\ run = NoRun
  /\ win = NoWin
  /\ sh = NoSh
  /\ pat = NoPat
  /\ tr = <<>>
  /\ gs = InitialGS
  /\ actions = TRUE

InitOps ==
  /\ InPrologue \/ InBody
  /\ intersect = FALSE

InitStep == InitOps /\ watch = "step"
InitRun == InitOps /\ watch = "run"
InitWin == InitOps /\ watch = "win"

Gsave == gsave
Grestore == grestore
Grestoreall == grestoreall
Save == \E id \in SaveIDs : save(id)
Restore == \E id \in SaveIDs : restore(id)
Origin == <<0, 0>>

Moveto == moveto(Origin)
Lineto == lineto(Origin)
Newpath == \E drawing \in BOOLEAN : newpath(drawing)
Initclip == initclip
Clippath == clippath
ClipOp == Len(paths) < MaxPaths /\ HandedOut < MaxOut /\ clip(FALSE)
EoclipOp == Len(paths) < MaxPaths /\ HandedOut < MaxOut /\ clip(TRUE)

Next ==
  \/ Gsave \/ Grestore \/ Grestoreall \/ Save \/ Restore
  \/ Moveto \/ Newpath \/ Initclip \/ Clippath \/ ClipOp

Spec == InitStep /\ [][Next]_vars

ShfillOp ==
  /\ HandedOut < MaxOut
  /\ Len(paths) < MaxPaths
  /\ \E s \in Streams : shfill(s)

ShadingNext == Gsave \/ Save \/ Moveto \/ ClipOp \/ ShfillOp

SpecShading == InitStep /\ [][ShadingNext]_vars

\* Sequential meshes given whole, one shfill call after another.
MaxMeshOut == 4    \* entries handed out before the last shfill call

SequentialMeshes == [type : {4, 6, 7}, cs : {1}, bg : {0}, bb : {0}, flags : FlagSeqs]

WholeStreams == {Stream(d, Len(Operands(d))) : d \in SequentialMeshes}

MeshShfill ==
  /\ actions
  /\ Len(out) <= MaxMeshOut
  /\ \E s \in WholeStreams : shfill(s)

MeshNext == Gsave \/ Moveto \/ MeshShfill

SpecMesh == InitStep /\ [][MeshNext]_vars

\* Patterns: makepattern opens and closes pattern definitions while paths are
\* built and filled.
InitPat == InitOps /\ watch = "pat"

PatternIDs == 1 .. MaxPatternID

PatternOperands(type, id, paint, matrix) == <<type, id, 0, 0, 1, 1, 1, 1, paint>> \o matrix

Makepattern ==
  \E type \in {0, 1}, id \in PatternIDs, paint \in {1, 2} :
    makepattern(PatternOperands(type, id, paint, <<>>))

FillOp == fill(FALSE)

PatternNext == Makepattern \/ Moveto \/ FillOp

SpecPattern == InitPat /\ [][PatternNext]_vars

\* Matrices: the operators that set and change the CTM.
InitCtm == InitOps /\ watch = "ctm"

Coords == 0 .. MaxCoord

\* Matrix operands: the leading components of a full operand list.
MatrixOperands ==
  {SubSeq(full, 1, k) : full \in {<<1, 0, 0, 1, 0, 0>>, <<2, 1, 1, 2, 1, 1>>}, k \in 0 .. 6}

MoreOps == Len(tr) < MaxOps

Setmatrix == MoreOps /\ \E p \in MatrixOperands : setmatrix(p)
Scale == MoreOps /\ \E sx \in Coords, sy \in Coords : scale(<<sx, sy>>)
Translate == MoreOps /\ \E tx \in Coords, ty \in Coords : translate(<<tx, ty>>)
Rotate == MoreOps /\ \E quarters \in 0 .. 3 : rotate(<<quarters>>)

\* Pattern definitions that carry a pattern matrix.
MakepatternMatrix ==
  MoreOps /\ \E id \in PatternIDs, p \in MatrixOperands : makepattern(PatternOperands(1, id, 1, p))

MatrixNext == Setmatrix \/ Scale \/ Translate \/ Rotate \/ MakepatternMatrix

SpecMatrix == InitCtm /\ [][MatrixNext]_vars

\* Painting: paths are built, loaded from the clip stack, clipped to, stroked
\* and filled under the cap styles and line widths.
MaxPoint == 1      \* path points have coordinates 0..MaxPoint (in PostScript units)

Points == {<<x * Unit, y * Unit>> : x \in 0 .. MaxPoint, y \in {0}}

LineWidths == {1 * Unit, 2 * Unit}

MovetoAny == \E pt \in Points : moveto(pt)
LinetoAny == \E pt \in Points : lineto(pt)
StrokeOp == stroke
EofillOp == fill(TRUE)
Setlinewidth == \E w \in LineWidths : setlinewidth(w)
Setlinecap == \E cap \in 0 .. 2 : setlinecap(cap)

PaintNext ==
  \/ Gsave \/ MovetoAny \/ LinetoAny \/ Clippath \/ ClipOp
  \/ StrokeOp \/ FillOp \/ EofillOp \/ Setlinewidth \/ Setlinecap

SpecPaint == InitStep /\ [][PaintNext]_vars

\* Colors and patterns: components are 0 or 1; the pattern ID one above the
\* IDs makepattern registers is never in the table.
Levels == {0, 1}

Setgray == \E g \in Levels : setgray(<<g>>)
Setrgbcolor == \E r \in Levels, b \in Levels : setrgbcolor(<<r, 0, b>>)
Setcmykcolor == \E c \in Levels, k \in Levels : setcmykcolor(<<c, 0, 0, k>>)
Sethsbcolor == \E s \in Levels, b \in Levels : sethsbcolor(<<0, s, b>>)
Setpattern ==
  \E id \in 1 .. MaxPatternID + 1 : setpattern(<<id>>) \/ setpattern(<<id, 1, 0, 0>>)

ColorNext ==
  \/ Makepattern \/ Setpattern \/ Setgray \/ Setrgbcolor \/ Setcmykcolor \/ Sethsbcolor
  \/ Moveto \/ FillOp

SpecColor == InitStep /\ [][ColorNext]_vars

\* Clipping: one clip path set after another, on entries pushed and popped
\* by gsave and grestore, with fills that refer to them.
MaxClips == 2      \* paths stored by clip and eoclip calls when clips are chained

ClipAgain == Len(paths) < MaxClips /\ clip(FALSE)
EoclipAgain == Len(paths) < MaxClips /\ clip(TRUE)

ClipNext == Gsave \/ Grestore \/ MovetoAny \/ ClipAgain \/ EoclipAgain \/ FillOp

SpecClip == InitStep /\ [][ClipNext]_vars

\* Strokes under every cap and join style.
Setlinejoin == \E join \in 0 .. 2 : setlinejoin(join)

StrokeNext == MovetoAny \/ LinetoAny \/ Setlinecap \/ Setlinejoin \/ StrokeOp

SpecStroke == InitStep /\ [][StrokeNext]_vars

\* The same session with the history of its calls kept, and with a gsave
\* called by the code of a special, so that the clip stack has an entry.
MaxOpen == 1       \* entries pushed on the clip stack during the session

GsaveInBody == psSection = "PS_BODY" /\ Len(clipStack) < MaxOpen /\ gsave

ResourceNext == SessionNext \/ GsaveInBody

SpecResource == InitCall /\ [][ResourceNext]_vars

SpecRun == InitRun /\ [][Next]_vars

SpecWin == InitWin /\ [][Next]_vars

-----------------------------------------------------------------------------
(* Claims about the session life cycle *)

\* C6: over every sequence of preprocess, process and dviEndPage calls the
\* header setup (prologue files, then the bop/eop redefinition) has run
\* exactly once as soon as a call that needs it was made, never more than
\* once on later pages, never when no such call was made, and no other code
\* was executed before it.
C6_HeaderSetupOnce ==
  /\ psi.setups = (IF needed THEN 1 ELSE 0)
  /\ ~psi.early

\* C6 witness: the setup ran once and a second page is being processed.
C6_Witness ==
  /\ psi.setups = 1
  /\ psi.closed >= 1
  /\ psSection = "PS_BODY"

\* C7: the body entries not yet closed number 1 when the section is PS_BODY
\* and 0 otherwise, the body is entered once per page (and was entered on
\* this page whenever the section is PS_BODY), and no special's code is
\* executed while the section is not PS_BODY.
C7_BodyEntriesBalanced ==
  /\ psi.opened - psi.closed = (IF psSection = "PS_BODY" THEN 1 ELSE 0)
  /\ psi.entries = (IF psSection = "PS_BODY" THEN 1 ELSE 0)
  /\ ~psi.stray

\* C7 witness: a page's body was entered and closed, and the body of the next
\* page is open.
C7_Witness ==
  /\ psi.closed = 1
  /\ psi.opened = 2
  /\ psSection = "PS_BODY"
  /\ psi.entries = 1

\* C8 as stated: every '!' snippet handed to preprocess, whatever the session
\* phase, is replayed exactly once, at the next body entry, in order.
C8_EverySnippetReplayed ==
  /\ psi.replayed \o headerCode = handed
  /\ psSection = "PS_BODY" => headerCode = <<>>

\* C8 amended: every '!' snippet handed to preprocess while the section is
\* not PS_BODY is replayed exactly once, at the next body entry, in the order
\* collected; a snippet handed while the section is PS_BODY is ignored.
C8_CollectedSnippetsReplayed ==
  /\ psi.replayed \o headerCode = collectable
  /\ psSection = "PS_BODY" => headerCode = <<>>

\* C8 witness: two snippets were collected and replayed, in order, at the
\* body entry that followed.
C8_Witness ==
  /\ psi.replayed = <<1, 2>>
  /\ headerCode = <<>>
  /\ psSection = "PS_BODY"

-----------------------------------------------------------------------------
(* Claims about the clip stack *)

\* C1: within a run made only of gsave and grestore calls in which every
\* grestore is matched to an earlier gsave of the run, the clip-stack depth is
\* the depth before the run plus the number of gsave calls still unmatched; so
\* after a balanced run the depth equals the depth before it.
C1_BalancedRunKeepsDepth ==
  Len(clipStack) = run.base + run.open

\* C1 witness: a balanced run with at least one matched pair has ended on a
\* stack whose top entry was pushed by a named save.
C1_Witness ==
  /\ run.done
  /\ run.open = 0
  /\ clipStack # <<>>
  /\ Top(clipStack).saveID >= 0

\* C2: save(id), then any gsave and grestore calls, then restore(id) leaves
\* the clip stack exactly as it was before save(id).
C2_SaveRestoreRoundTrip ==
  win.st = "closed" => clipStack = win.snap

\* C2 witness: restore(id) removed, besides the entry of save(id), an entry
\* that a gsave of the window had left above it, from over a non-empty stack.
C2_Witness ==
  /\ win.st = "closed"
  /\ win.snap # <<>>
  /\ win.above >= 1

-----------------------------------------------------------------------------
(* Claims about shfill *)

\* pathID and saveID of each entry of a clipping stack.
Entries(stack) ==
  [i \in 1 .. Len(stack) |-> [pathID |-> stack[i].pathID, saveID |-> stack[i].saveID]]

\* C3: with the host attached, a shfill call whose operands carry the clip
\* rectangle leaves the clip stack with the same depth and the same pathID
\* and saveID in every entry as before the call, whether the stack was empty,
\* had an unnamed top or a named top, and whether the mesh was drawn
\* completely or aborted.
C3_ShfillClipIsTemporary ==
  (lastOp.op = "shfill" /\ sh.bb = 1 /\ actions) => Entries(clipStack) = Entries(before)

\* C5: shfill on operands truncated at any point emits a diagnostic, appends
\* no segment for the incomplete patch or a later one, and returns normally.
C5_TruncatedShfillDiagnosed ==
  (lastOp.op = "shfill" /\ sh.trunc) =>
    /\ sh.diag
    /\ sh.patches <= sh.whole
    /\ sh.res # "escaped"

-----------------------------------------------------------------------------
(* Claims about patterns *)

\* C4: makepattern with pattern type 1, called while the output target is T
\* (the page or an enclosing container), redirects drawing into the new
\* pattern's container; the following makepattern call with pattern type 0
\* makes T the target again, and every element drawn after it goes to T.
C4_PatternTargetRestored ==
  /\ pat.st = "open" => (xmlnode = pat.node /\ pat.to \in {-1, pat.node})
  /\ pat.st = "closed" => (xmlnode = pat.target /\ pat.to \in {-1, pat.target})

-----------------------------------------------------------------------------
(* Claims about matrices *)

\* A PostScript matrix [a b c d e f] as a Matrix: ((a,c,e),(b,d,f)).
PSMatrix(v) == <<v[1], v[3], v[5], v[2], v[4], v[6]>>

\* An operand list of fewer than six components, completed by the trailing
\* components of the PostScript identity matrix.
PadIdentity(v) == v \o SubSeq(<<1, 0, 0, 1, 0, 0>>, Len(v) + 1, 6)

LastTr == tr[Len(tr)]

\* C9: a matrix built from k < 6 operands (by setmatrix, or as the pattern
\* matrix of makepattern) has its first k components from the operands and the
\* missing ones from the PostScript identity matrix [1 0 0 1 0 0].
C9_ShortMatrixPaddedWithIdentity ==
  (tr # <<>> /\ actions) =>
    /\ LastTr.op = "setmatrix" => ctm = PSMatrix(PadIdentity(LastTr.arg))
    /\ LastTr.op = "makepattern" =>
         patterns[Len(patterns)].matrix =
           Mul(PSMatrix(PadIdentity(SubSeq(LastTr.arg, 10, Len(LastTr.arg)))), LastTr.at)

\* scale(a,b) called on the identity CTM and translate(c,d) called next.
ScaleThenTranslate ==
  /\ actions
  /\ Len(tr) >= 2
  /\ tr[Len(tr) - 1].op = "scale"
  /\ tr[Len(tr) - 1].at = Identity
  /\ LastTr.op = "translate"

ScaleOf == ScalingMatrix(tr[Len(tr) - 1].arg[1], tr[Len(tr) - 1].arg[2])
TranslationOf == TranslationMatrix(LastTr.arg[1], LastTr.arg[2])

\* Each of scale, translate and rotate replaces the CTM M by delta*M.
LeftProducts ==
  (tr # <<>> /\ actions) =>
    /\ LastTr.op = "scale" =>
         ctm = Mul(ScalingMatrix(LastTr.arg[1], LastTr.arg[2]), LastTr.at)
    /\ LastTr.op = "translate" =>
         ctm = Mul(TranslationMatrix(LastTr.arg[1], LastTr.arg[2]), LastTr.at)
    /\ LastTr.op = "rotate" => ctm = Mul(RotationMatrix(LastTr.arg[1]), LastTr.at)

\* C10 as stated: each of scale, translate and rotate replaces the CTM M by
\* delta*M; scale(a,b) then translate(c,d) on the identity CTM gives
\* T(c,d)*S(a,b), which differs from S(a,b)*T(c,d) whenever the scale is not
\* 1 and the translation is not 0.
C10_OrderAlwaysMatters ==
  /\ LeftProducts
  /\ ScaleThenTranslate =>
       /\ ctm = Mul(TranslationOf, ScaleOf)
       /\ (ScaleOf # Identity /\ TranslationOf # Identity) =>
            ctm # Mul(ScaleOf, TranslationOf)

\* C10, amended: each of scale, translate and rotate replaces the CTM M by
\* delta*M; scale(a,b) then translate(c,d) on the identity CTM gives
\* T(c,d)*S(a,b) = ((a,0,c),(0,b,d)), which differs from S(a,b)*T(c,d)
\* exactly when a*c # c or b*d # d.
C10_LeftProductExact ==
  /\ LeftProducts
  /\ ScaleThenTranslate =>
       LET a == tr[Len(tr) - 1].arg[1]
           b == tr[Len(tr) - 1].arg[2]
           c == LastTr.arg[1]
           d == LastTr.arg[2]
       IN /\ ctm = Mul(TranslationOf, ScaleOf)
          /\ ctm = <<a, 0, c, 0, b, d>>
          /\ (ctm # Mul(ScaleOf, TranslationOf)) <=> (a * c # c \/ b * d # d)

C10_Witness ==
  /\ ScaleThenTranslate
  /\ tr[Len(tr) - 1].arg = <<2, 2>>
  /\ LastTr.arg = <<1, 1>>
  /\ ctm = <<2, 0, 1, 0, 2, 1>>
  /\ ctm # Mul(ScaleOf, TranslationOf)

-----------------------------------------------------------------------------
\* Painting: stroke, fill and eofill (SpecPaint).

PaintOps == {"stroke", "fill", "eofill"}

\* The entries the step appended to the output.
Emitted == SubSeq(out', Len(out) + 1, Len(out'))

\* C11: a stroke or fill that consumes the flag set by clippath clears it,
\* whatever the top entry is, so the flag is consumed at most once per
\* clippath.
C11_FlagClearedOnConsumption ==
  (lastOp.op \in PaintOps /\ lastOp.arg = 1 /\ CS_clippathLoaded(before)) =>
    ~CS_clippathLoaded(clipStack)

\* C12: stroke, fill and eofill with an empty live path (redundant segments
\* stripped) and no loaded clip path append nothing to any target, report no
\* box, and leave the clip stack, the active pattern and the target as they
\* were.
C12_EmptyPaintIsNoOp ==
  [][(/\ lastOp'.op \in PaintOps
      /\ RemoveRedundant(path) = <<>>
      /\ ~CS_clippathLoaded(clipStack))
     => (/\ out' = out
         /\ clipStack' = clipStack
         /\ pattern' = pattern
         /\ xmlnode' = xmlnode /\ savenode' = savenode
         /\ lastOp'.arg = 0)]_vars

C12_Witness ==
  /\ actions
  /\ lastOp \in {Op("stroke", 0), Op("fill", 0), Op("eofill", 0)}
  /\ path = <<>> /\ out = <<>>
  /\ clipStack # <<>> /\ clipStack = before

\* The path stroke draws (the live path, or the clip path clippath loaded) is
\* a single moveto.
Stroked == Drawing(RemoveRedundant(path), CS(clipStack, paths), ctm)

StrokesDot == lastOp'.op = "stroke" /\ actions /\ isDot(Stroked)

DotPoint == Stroked[1].pt

DotBox(pt, r) == <<pt[1] - r, pt[2] - r, pt[1] + r, pt[2] + r>>

\* C13, as stated: a round-capped stroke of a single moveto to p appends one
\* circle of radius w/2 centred at p and reports the box [p-w/2, p+w/2].
C13_DotCircleAndFullBox ==
  [][(StrokesDot /\ gs.linecap = 1)
     => (/\ Len(Emitted) = 2
         /\ Emitted[1].el = "circle"
         /\ Emitted[1].c = DotPoint /\ 2 * Emitted[1].r = gs.linewidth
         /\ Emitted[2].ev = "embed"
         /\ Emitted[2].box = DotBox(DotPoint, gs.linewidth \div 2))]_vars

\* C13, amended: the stroke appends exactly one circle of radius w/2 centred
\* at p, filled with the current colour; the box reported is [p-w/2, p+w/2]
\* when no clip path is in force, and that box cut down to the box of the clip
\* path otherwise.
C13_DotCircleAndClippedBox ==
  [][(StrokesDot /\ gs.linecap = 1)
     => (/\ Len(SelectSeq(Emitted, LAMBDA e : e.ev = "append")) = 1
         /\ Emitted[1].el = "circle" /\ Emitted[1].fill = gs.color
         /\ Emitted[1].c = DotPoint /\ 2 * Emitted[1].r = gs.linewidth
         /\ xmlnode = 0 =>
              LET full == DotBox(DotPoint, gs.linewidth \div 2)
                  box == IF CS_top(clipStack)
                           THEN intersectBox(full, ClipBox(CS(clipStack, paths)))
                           ELSE full
              IN Emitted = <<Emitted[1]>> \o Embed(box))]_vars

C13_Witness ==
  /\ lastOp = Op("stroke", 1)
  /\ Len(out) = 2
  /\ out[1].el = "circle" /\ out[1].c = <<1 * Unit, 0>> /\ out[1].r = 1
  /\ out[2].ev = "embed" /\ out[2].box = <<1 * Unit - 1, 0 - 1, 1 * Unit + 1, 1>>

C15_ConsumedPathCleared ==
  (lastOp.op \in PaintOps \cup {"clip", "eoclip"} /\ lastOp.arg = 1) => path = <<>>

-----------------------------------------------------------------------------
\* initclip and clippath (Spec).

\* The entry gsave pushes on an empty stack: no clip path is in force.
NoClipEntry == Top(CS_dup(<<>>, -1))

\* C16, as stated: initclip pushes one entry in every state, the empty stack
\* included, and the entry pushed can be told from one that means "no clip".
C16_InitclipAlwaysPushesDistinctEntry ==
  lastOp.op = "initclip" =>
    /\ Len(clipStack) = Len(before) + 1
    /\ Top(clipStack) # NoClipEntry

\* C16, amended: on a non-empty stack initclip pushes exactly one entry, with
\* pathID 0, saveID -1 and the flag unset, above the entries that were there;
\* on an empty stack it pushes nothing.  The entry pushed is the one gsave
\* pushes on an empty stack.
C16_InitclipPushesOnNonEmptyStack ==
  lastOp.op = "initclip" =>
    IF before = <<>> THEN clipStack = <<>>
    ELSE /\ clipStack = Append(before, Entry(0, -1))
         /\ Top(clipStack) = NoClipEntry
         /\ ~CS_top(clipStack)

C16_Witness ==
  /\ lastOp.op = "initclip"
  /\ Len(before) = 1 /\ before[1].pathID = 1
  /\ Len(clipStack) = 2 /\ clipStack[2] = Entry(0, -1)

\* C17, as stated: after clippath, in every state, the live path is empty and
\* the flag of the top entry is set; depth, pathIDs and saveIDs are unchanged.
C17_ClippathAlwaysLoads ==
  lastOp.op = "clippath" =>
    /\ path = <<>>
    /\ CS_clippathLoaded(clipStack)
    /\ Entries(clipStack) = Entries(before)

\* C17, amended: on a non-empty clip stack clippath empties the live path and
\* sets the flag of the top entry, and depth, pathIDs and saveIDs of all
\* entries and the flags of the entries below the top are unchanged; on an
\* empty clip stack it changes neither the live path nor the stack.
C17_ClippathLoadsOnNonEmptyStack ==
  [][lastOp'.op = "clippath" =>
       IF clipStack # <<>>
         THEN /\ path' = <<>>
              /\ CS_clippathLoaded(clipStack')
              /\ Entries(clipStack') = Entries(clipStack)
              /\ Front(clipStack') = Front(clipStack)
         ELSE path' = path /\ clipStack' = <<>>]_vars

C17_Witness ==
  /\ lastOp.op = "clippath"
  /\ Len(before) = 2 /\ ~CS_clippathLoaded(before) /\ before[1].cpathLoaded
  /\ CS_clippathLoaded(clipStack)
  /\ path = <<>>

-----------------------------------------------------------------------------
\* grestore, grestoreall and restore (Spec).

\* C18: grestore removes exactly the top entry when that entry is unnamed, and
\* leaves the clip stack as it is when the top entry is named or the stack is
\* empty.
C18_GrestorePopsOneUnnamed ==
  lastOp.op = "grestore" =>
    IF before # <<>> /\ Top(before).saveID < 0
      THEN clipStack = Front(before)
      ELSE clipStack = before

C18_Witness ==
  /\ lastOp.op = "grestore"
  /\ Len(before) = 2 /\ before[1].saveID >= 0 /\ before[2].saveID >= 0
  /\ clipStack = before

\* C19: grestoreall removes exactly the unnamed entries above the topmost
\* named one: what is left is the stack up to that entry, unchanged, or the
\* empty stack when no entry is named.
C19_GrestoreallPopsUnnamedRun ==
  lastOp.op = "grestoreall" =>
    /\ Len(clipStack) <= Len(before)
    /\ clipStack = SubSeq(before, 1, Len(clipStack))
    /\ clipStack = <<>> \/ Top(clipStack).saveID >= 0
    /\ \A i \in Len(clipStack) + 1 .. Len(before) : before[i].saveID < 0
    /\ (before # <<>> /\ Top(before).saveID >= 0) => clipStack = before

C19_Witness ==
  /\ lastOp.op = "grestoreall"
  /\ Len(before) = 3
  /\ before[1].saveID >= 0 /\ before[2].saveID < 0 /\ before[3].saveID < 0
  /\ clipStack = <<before[1]>>

\* The topmost entry of a stack tagged id (0: none).
TopmostTagged(stack, id) ==
  Max({0} \cup {i \in 1 .. Len(stack) : stack[i].saveID = id})

\* C20: restore(id), id >= 0, with an entry tagged id on the stack removes the
\* topmost such entry and every entry above it, and leaves the entries below
\* as they were.
C20_RestorePopsThroughTag ==
  (lastOp.op = "restore" /\ lastOp.arg >= 0 /\ TopmostTagged(before, lastOp.arg) > 0) =>
    clipStack = SubSeq(before, 1, TopmostTagged(before, lastOp.arg) - 1)

C20_Witness ==
  /\ lastOp = Op("restore", 0)
  /\ Len(before) = 3
  /\ before[1].saveID = 1 /\ before[2].saveID = 0 /\ before[3].saveID < 0
  /\ clipStack = <<before[1]>>

-----------------------------------------------------------------------------
\* gsave and save (Spec).

\* C21: gsave and save(id) push exactly one entry above the entries that were
\* there; it has the pathID of the previous top (0 on an empty stack) and the
\* saveID -1 for gsave, id for save(id), so the clip path in force is the same
\* before and after.
C21_SavePushesCopyOfTop ==
  lastOp.op \in {"gsave", "save"} =>
    /\ Len(clipStack) = Len(before) + 1
    /\ Front(clipStack) = before
    /\ Top(clipStack).pathID = CS_topID(before)
    /\ Top(clipStack).saveID = lastOp.arg
    /\ lastOp.op = "gsave" => lastOp.arg = -1
    /\ CS_topID(clipStack) = CS_topID(before)
    /\ CS_top(clipStack) = CS_top(before)

C21_Witness ==
  /\ lastOp = Op("save", 1)
  /\ Len(before) = 2 /\ before[1].pathID = 0 /\ before[2].pathID = 1
  /\ Len(clipStack) = 3 /\ clipStack[3].pathID = 1 /\ clipStack[3].saveID = 1

-----------------------------------------------------------------------------
\* Colors and patterns (SpecColor).

ColorOps == {"setgray", "setrgbcolor", "setcmykcolor", "sethsbcolor"}

\* The step is a fill or eofill that hands out its path element.
Fills == lastOp'.op \in {"fill", "eofill"} /\ lastOp'.arg = 1

\* The element is painted with the color c and refers to no pattern.
PaintedWith(elem, c, inPattern) ==
  /\ elem.el = "path"
  /\ elem.n = 0
  /\ elem.fill = IF c # "black" \/ inPattern THEN c ELSE "none"

\* C22: after setgray, setrgbcolor, setcmykcolor and sethsbcolor no pattern is
\* active and the handler's color is the color the host has; a fill while no
\* pattern is active is painted with that color, and only setpattern makes a
\* pattern active.
C22_ColorOperatorClearsPattern ==
  /\ [](lastOp.op \in ColorOps =>
          (pattern = 0 /\ (actions => gs.color = gs.currentcolor)))
  /\ [][/\ (Fills /\ pattern = 0) => PaintedWith(Emitted[1], gs.color, savenode # 0)
        /\ (pattern' # 0 /\ pattern' # pattern) => lastOp'.op = "setpattern"]_vars

C22_Witness ==
  /\ lastOp.op = "fill" /\ lastOp.arg = 1
  /\ \E i \in 1 .. Len(out) : out[i] = PatternDef(1)
  /\ pattern = 0
  /\ gs.color = "red" /\ gs.currentcolor = "red"
  /\ Top(out).el = "path" /\ Top(out).fill = "red" /\ Top(out).n = 0

\* C23: setpattern with an ID that is not in the pattern table leaves no
\* pattern active, whatever was active before, and changes neither the table
\* nor the output; a fill that follows is painted with the current color and
\* refers to no pattern.
C23_UnknownPatternClears ==
  [][/\ (lastOp'.op = "setpattern" /\ Registered(patterns, lastOp'.arg[1]) = 0) =>
          (pattern' = 0 /\ patterns' = patterns /\ out' = out)
     /\ (Fills /\ lastOp.op = "setpattern" /\ Registered(patterns, lastOp.arg[1]) = 0) =>
          PaintedWith(Emitted[1], gs.color, savenode # 0)]_vars

C23_Witness ==
  /\ lastOp.op = "setpattern"
  /\ lastOp.arg = <<MaxPatternID + 1>>
  /\ patterns # <<>>
  /\ \E i \in 1 .. Len(out) : out[i] = PatternDef(1)
  /\ pattern = 0
  /\ gs.color = "red"

-----------------------------------------------------------------------------
\* Boxes reported by shfill (SpecShading).

\* The boxes the step reported to the host.
Reported == SelectSeq(Emitted, LAMBDA e : e.ev = "embed")

\* C24: shfill reports one box per patch it emits, of whatever shading type,
\* exactly when output is not redirected into a container.
C24_PatchBoxesUnlessRedirected ==
  [][lastOp'.op = "shfill" =>
       Len(Reported) = IF xmlnode = 0 THEN sh'.patches ELSE 0]_vars

\* The box b lies within the box c.
Within(b, c) == c[1] <= b[1] /\ c[2] <= b[2] /\ b[3] <= c[3] /\ b[4] <= c[4]

\* C25: when shfill is given the clip rectangle R, every box it reports for
\* the mesh lies within R.
C25_PatchBoxesWithinClipRect ==
  [][(lastOp'.op = "shfill" /\ sh'.bb = 1) =>
       \A i \in 1 .. Len(Reported) : Within(Reported[i].box, transformBox(ClipRect, ctm))]_vars

-----------------------------------------------------------------------------
\* Patches that continue their predecessor (SpecMesh).

\* The components of the colors a patch shares with its predecessor.
SharedComponents(patch) ==
  UNION {{patch.colors[j][c] : c \in 1 .. Len(patch.colors[j])} : j \in 1 .. 2}

-----------------------------------------------------------------------------
(* The shared path store *)

\* A clipPath definition handed to the defs section.
IsClipDef(e) == e.ev = "defs" /\ e.el \in {"clipPath", "clipPath:evenodd"}

\* The clip path an output entry refers to: the clip-path attribute of an
\* element or of a clipPath definition, 0 when it has none.
ClipRef(e) == IF e.ev \in {"append", "defs"} THEN e.clip ELSE 0

\* The step was a clip or eoclip that took effect.
ClipTookEffect == lastOp'.op \in {"clip", "eoclip"} /\ lastOp'.arg = 1

\* C27: the pathID of every clip-stack entry is 0 or the index of a stored
\* path, every clip reference in the output names a clipPath definition
\* handed out before it, and the path store only grows: every step keeps
\* the stored paths as they are, and a clip or eoclip that takes effect
\* appends exactly one path.
C27_PathStoreAppendOnly ==
  /\ [](/\ \A i \in DOMAIN clipStack : clipStack[i].pathID \in 0 .. Len(paths)
        /\ \A i \in DOMAIN out :
             ClipRef(out[i]) > 0 =>
               \E j \in 1 .. i - 1 : IsClipDef(out[j]) /\ out[j].n = ClipRef(out[i]))
  /\ [][/\ Len(paths') >= Len(paths)
        /\ SubSeq(paths', 1, Len(paths)) = paths
        /\ ClipTookEffect => Len(paths') = Len(paths) + 1]_vars

\* Two clips were chained on a duplicated entry and a fill refers to the
\* second: the entry below still holds the first path's ID.
C27_Witness ==
  /\ Len(paths) = 2
  /\ Len(clipStack) = 2
  /\ clipStack[1].pathID = 1
  /\ clipStack[2].pathID = 2
  /\ \E i \in DOMAIN out : out[i].ev = "append" /\ out[i].clip = 2
  /\ \E i \in DOMAIN out : IsClipDef(out[i]) /\ out[i].n = 2 /\ out[i].clip = 1

-----------------------------------------------------------------------------
(* Chained clips *)

\* The clipPath definition of a clip that took effect: the only entry the
\* step hands out, for the newly stored path, referring to the clip the top
\* entry had before the call (0: no nested reference).
ChainedDef ==
  /\ Len(Emitted) = 1
  /\ IsClipDef(Emitted[1])
  /\ Emitted[1].n = Len(paths')
  /\ Emitted[1].clip = CS_topID(clipStack)

\* C28 as stated: a clip or eoclip that takes effect changes nothing of the
\* clip stack but the pathID of its top entry, which becomes a newly stored
\* ID, and its definition refers to the previous clip exactly when there
\* was one.
C28_ClipReplacesTopOnly ==
  [][ClipTookEffect =>
       /\ Len(clipStack') = Len(clipStack)
       /\ Len(clipStack) > 0
       /\ clipStack' = [clipStack EXCEPT ![Len(clipStack)].pathID = Len(paths) + 1]
       /\ ChainedDef]_vars

\* C28: in chained mode a clip or eoclip that takes effect on a non-empty
\* stack changes only the pathID of the top entry, which becomes a newly
\* stored ID; on an empty stack it pushes one entry of gsave level with the
\* new ID.  Its definition refers to the previous clip exactly when the top
\* entry had one.
C28_ClipReplacesTopOrPushes ==
  [][ClipTookEffect =>
       /\ ~intersect
       /\ IF clipStack = <<>>
            THEN clipStack' = <<Entry(Len(paths) + 1, -1)>>
            ELSE clipStack' = [clipStack EXCEPT ![Len(clipStack)].pathID = Len(paths) + 1]
       /\ ChainedDef]_vars

\* A clip has just been chained to the clip of a duplicated entry: the
\* definition handed out last refers to the first clip path.
C28_Witness ==
  /\ lastOp.op \in {"clip", "eoclip"}
  /\ lastOp.arg = 1
  /\ Len(before) = 2
  /\ Top(before).pathID = 1
  /\ clipStack = [before EXCEPT ![2].pathID = 2]
  /\ out # <<>>
  /\ Top(out) = ClipDef(2, 1, lastOp.op = "eoclip")

-----------------------------------------------------------------------------
(* Resources that are not found *)

NotFound == Diag("header file not found")
NotOpened == Diag("file not found")

\* What the step handed out, without the diagnostics.
Delivered == SelectSeq(Emitted, LAMBDA e : e.ev # "diag")

\* The step is a call of preprocess or process that runs initialize.
Initializes ==
  /\ psSection = "PS_NONE"
  /\ lastOp'.op \in {"preprocess", "process"}
  /\ lastOp'.arg.kind \notin IF lastOp'.op = "process" THEN HeaderPrefixes ELSE {}

\* The step is the prescan of a 'header=' special whose file is not found.
HeaderMissing ==
  /\ lastOp'.op = "preprocess"
  /\ lastOp'.arg.kind = "header="
  /\ ~lastOp'.arg.fileOk
  /\ psSection' = "PS_HEADERS"

\* The step is a psfile special whose file cannot be opened.
PsfileMissing ==
  /\ lastOp'.op = "process"
  /\ lastOp'.arg.kind = "psfile"
  /\ ~lastOp'.arg.fileOk

\* Nothing but diagnostics comes out, and the cursor, the output target
\* and the clip stack stay as they are.
OnlyDiagnosed ==
  /\ Delivered = <<>>
  /\ cursor' = cursor
  /\ xmlnode' = xmlnode
  /\ clipStack' = clipStack
  /\ paths' = paths

\* C29: a header file that is not found, in initialize or for a 'header='
\* special, and a psfile special whose file cannot be opened each yield a
\* diagnostic; no code of the resource is executed, nothing but the
\* diagnostic comes out, the cursor, the output target and the clip stack
\* stay as they are, and processing continues: the header setup completes
\* and process enters the body section.
C29_MissingResourceSkipped ==
  [][/\ Initializes =>
          /\ psi'.procsets \cap {"procset:" \o n : n \in {Prologue[1], Prologue[2], Prologue[3]}}
               = {"procset:" \o n : n \in lastOp'.arg.found}
          /\ Len(SelectSeq(Emitted, LAMBDA e : e = NotFound))
               >= 3 - Cardinality(lastOp'.arg.found)
          /\ psi'.setups = psi.setups + 1
          /\ psSection' # "PS_NONE"
          /\ clipStack' = clipStack
          /\ xmlnode' = xmlnode
     /\ HeaderMissing =>
          /\ Emitted # <<>>
          /\ Top(Emitted) = NotFound
          /\ "procset:user.pro" \notin psi'.procsets \ psi.procsets
          /\ psi'.specials = psi.specials
          /\ OnlyDiagnosed
     /\ PsfileMissing =>
          /\ Emitted # <<>>
          /\ Top(Emitted) = NotOpened
          /\ psi'.specials = psi.specials
          /\ psi'.procsets \subseteq
               psi.procsets \cup {"procset:" \o n : n \in lastOp'.arg.found}
          /\ OnlyDiagnosed
          /\ psSection' = "PS_BODY"
          /\ calls' = calls + 1]_vars

\* A psfile special whose file cannot be opened has just been processed,
\* after a prologue file and the file of a 'header=' special were not
\* found, code of a special ran, the cursor moved and a gsave pushed an
\* entry.
C29_Witness ==
  /\ lastOp.op = "process"
  /\ lastOp.arg.kind = "psfile"
  /\ ~lastOp.arg.fileOk
  /\ Top(out) = NotOpened
  /\ Len(SelectSeq(out, LAMBDA e : e = NotFound)) = 2
  /\ psi.procsets = {"procset:tex.pro", "procset:special.pro"}
  /\ psi.specials = 1
  /\ cursor = 1
  /\ clipStack # <<>>

-----------------------------------------------------------------------------
(* The join attribute of a stroke *)

\* The value of the join attribute for a join style ("none": no attribute).
JoinName(join) == CASE join = 1 -> "round" [] join = 2 -> "bevel" [] OTHER -> "none"

\* The path elements that strokes appended.
StrokedPaths == {i \in DOMAIN out : out[i].ev = "append" /\ out[i].el = "path"}

\* C30: after the stroke of a path that is not a dot, the join attribute of
\* the element is the one of the current join style, whatever the cap
\* style: none for 0, round for 1, bevel for 2.
C30_JoinFollowsJoinStyle ==
  lastOp.op = "stroke" /\ lastOp.arg = 1 =>
    \A i \in StrokedPaths : out[i].linejoin = JoinName(gs.linejoin)

-----------------------------------------------------------------------------
(* restore of a save that is not on the stack *)

\* C31: after restore(id) with id >= 0, called while no entry of the clip
\* stack is tagged id, the clip stack is empty: every entry is removed, the
\* entries of named saves with other IDs included, so the call changes any
\* stack that is not empty.
C31_RestoreOfUnknownIDEmptiesStack ==
  (lastOp.op = "restore" /\ lastOp.arg >= 0 /\ TopmostTagged(before, lastOp.arg) = 0) =>
    /\ clipStack = <<>>
    /\ before # <<>> => clipStack # before

\* restore(0) has just met a stack holding the entry of save(1) below an
\* unnamed entry, and none tagged 0.
C31_Witness ==
  /\ lastOp.op = "restore"
  /\ lastOp.arg = 0
  /\ Len(before) = 2
  /\ before[1].saveID = 1
  /\ before[2].saveID < 0
  /\ clipStack = <<>>
====
